---------------------------- MODULE Spec2Model ----------------------------
(***************************************************************************)
(* A model of the AntiVirusLite core: the resource throttler               *)
(* (core/resource_throttler.py), the quarantine store                      *)
(* (core/quarantine_manager.py), the scan intensity selector               *)
(* (core/scan_intensity_manager.py), the per-file detection pipeline       *)
(* (core/engine.py, scan_file) and the scan run (core/engine.py,           *)
(* scan_directory).  Each component has its own specification over its own *)
(* variables; the variables of the other components stay at their initial  *)
(* values, except where a specification names an action of another         *)
(* component.                                                              *)
(***************************************************************************)
EXTENDS Integers, Sequences, FiniteSets, TLC

VARIABLES
    \* ---- ResourceThrottler (resource_throttler.py) ----
    is_throttled,     \* self.is_throttled
    throttle_start,   \* self.throttle_start (NoTime models None)
    current_rules,    \* self.current_rules: a list of rules, named by resource
    throttle_lock,    \* self.throttle_lock: "free" or the thread that holds it
    t_now,            \* datetime.now(), in seconds
    cpu_percent,      \* psutil.cpu_percent()
    memory_percent,   \* psutil.virtual_memory().percent
    disk_io_percent,  \* (read_bytes + write_bytes) / 2^20
    tpc,              \* per thread: the position in the throttler's code
    targ,             \* per thread: the rules argument of apply_throttle
    tret,             \* per thread: what check_resources returned in the step just taken
    throttle_callbacks, \* self.throttle_callbacks: resource -> list of callbacks
    tapplied,         \* the rules argument of the apply_throttle step just taken
    tcalls,           \* the callbacks run by the apply_throttle step just taken, in order
    \* ---- QuarantineManager (quarantine_manager.py) ----
    files,            \* the files outside the quarantine directory: path -> content
    modes,            \* their permission bits (st_mode & 0o777): path -> mode
    blobs,            \* the quarantine directory: quarantine name -> blob
    metadata,         \* metadata.json: quarantine name -> entry
    q_now,            \* datetime.now(), in seconds (the timestamp of a name)
    qpc,              \* per thread: the position in the store's code
    qloc,             \* per thread: the locals of the call in progress
    qpre,             \* per thread: files, blobs and metadata when its call began
    qres,             \* per thread: the call that returned last, and its result
    roundtrip,        \* the quarantine that has just succeeded, until another call starts
    q_calls,          \* the number of calls made
    q_faults,         \* the number of I/O errors that have occurred
    \* ---- ScanIntensityManager (scan_intensity_manager.py) ----
    current_profile,  \* self.current_profile
    last_adjustment,  \* self.last_adjustment, in minutes
    i_now,            \* datetime.now(), in minutes
    ihealth,          \* the health reading of the adjust_intensity call just made
    iret,             \* what adjust_intensity returned in the step just taken
    last_change,      \* when adjust_intensity last changed the profile (NoTime: never)
    last_set,         \* when the manager was constructed or set_profile last set a profile
    sel_health,       \* _select_profile: the health reading given
    sel_profile,      \* _select_profile: the profile returned ("none": not yet called)
    \* ---- ScanEngine.scan_file (engine.py) ----
    sf_file,          \* the file scan_file is given
    yara_compiler,    \* self.yara_compiler: "compiled", or "None" when compiling failed
    sf_result,        \* what scan_file returned (status "none": not yet called)
    \* ---- ScanEngine.scan_directory (engine.py) ----
    max_threads,      \* self.max_threads
    batch_size,       \* self.batch_size
    stats,            \* self.stats: files_scanned, files_infected, files_error
    is_scanning,      \* self.system_monitor.is_scanning
    run,              \* per scan_directory invocation: its position and its locals
    sd_faults,        \* the number of I/O errors that have occurred during scans
    \* ---- ResourceThrottler.get_status (resource_throttler.py) ----
    gs_status,        \* the dict get_status is building or has returned
    gs_activation,\* the rules of the activation in force when get_status read is_throttled
    \* ---- SystemHealthMonitor (system_health_monitor.py) ----
    h_sample,         \* what psutil reports: disk.free, memory.percent, cpu_percent(), the first temperature
    h_health,         \* the HealthStatus _check_system_health returned (status none: not yet called)
    \* ---- ScanEngine's own quarantine (engine.py, quarantine_file and restore_file) ----
    eq_files,         \* the files outside the quarantine directory: path -> content and mode
    eq_blobs,         \* the directory quarantine/: quarantine name -> blob
    eq_metadata,      \* quarantine/metadata.json: quarantine name -> entry
    eq_now,           \* datetime.now(), in seconds
    eq_ret,           \* the call that returned last, and its result
    eq_calls,         \* the number of calls made
    \* ---- ScanOptimizer (scan_optimizer.py) ----
    optimizer_batch_size,\* self.optimizer.batch_size
    \* ---- ScanEngine._get_file_batches over any tree (engine.py) ----
    b_tree,           \* the entries directory.rglob('*') yields, in order
    b_size,           \* self.batch_size
    b_cursor,         \* the generator: the next entry to look at
    b_batches,        \* the batches yielded so far
    b_pc,             \* the generator: running, exhausted or raised
    \* ---- PerformanceMonitor (performance_monitor.py) ----
    pm_last_io_counters, \* self.last_io_counters: read_bytes and write_bytes, in MiB
    pm_last_io_time,  \* self.last_io_time: time.time(), in seconds
    pm_history,       \* self.history: the disk rates of the metrics appended
    pm_tick,          \* the pass of the monitor loop just made: the elapsed time and the outcome
    \* ---- SystemMonitor and SystemHealthMonitor: the monitor thread (system_monitor.py, system_health_monitor.py) ----
    mon_kind,         \* the class of the monitor
    is_running,       \* self.is_running (SystemHealthMonitor: self.is_monitoring)
    monitor_thread,   \* self.monitor_thread: the thread created last (0 models None)
    mon_loops,        \* per thread created: where it is in _monitor_loop
    mon_pc,           \* per caller: the position in start_monitoring or stop_monitoring
    mon_joined,       \* per caller: the thread its stop_monitoring joins
    \* ---- ScanOptimizer.create_batch (scan_optimizer.py) ----
    cb_files,         \* the files argument: per file its size in MiB (NoSize: stat() fails)
    cb_batches,       \* what create_batch returned: batches of positions of files
    cb_done           \* create_batch has returned

tvars == <<is_throttled, throttle_start, current_rules, throttle_lock, t_now,
           cpu_percent, memory_percent, disk_io_percent, tpc, targ, tret,
           throttle_callbacks, tapplied, tcalls>>

qvars == <<files, modes, blobs, metadata, q_now, qpc, qloc, qpre, qres, roundtrip,
           q_calls, q_faults>>

ivars == <<current_profile, last_adjustment, i_now, ihealth, iret, last_change,
           last_set>>

selvars == <<sel_health, sel_profile>>

sfvars == <<sf_file, yara_compiler, sf_result>>

sdvars == <<max_threads, batch_size, stats, is_scanning, run, sd_faults>>

gsvars == <<gs_status, gs_activation>>

hvars == <<h_sample, h_health>>

eqvars == <<eq_files, eq_blobs, eq_metadata, eq_now, eq_ret, eq_calls>>

ovars == <<optimizer_batch_size>>

bvars == <<b_tree, b_size, b_cursor, b_batches, b_pc>>

pvars == <<pm_last_io_counters, pm_last_io_time, pm_history, pm_tick>>

mvars == <<mon_kind, is_running, monitor_thread, mon_loops, mon_pc, mon_joined>>

cvars == <<cb_files, cb_batches, cb_done>>

Threads == {"t1", "t2"}

\* What the steps of one component leave alone: the other components.
TOther == <<qvars, ivars, selvars, sfvars, sdvars, gsvars, hvars, eqvars, ovars, bvars, pvars, mvars, cvars>>
QOther == <<tvars, ivars, selvars, sfvars, sdvars, gsvars, hvars, eqvars, ovars, bvars, pvars, mvars, cvars>>
IOther == <<tvars, qvars, selvars, sfvars, sdvars, gsvars, hvars, eqvars, ovars, bvars, pvars, mvars, cvars>>
SelOther == <<tvars, qvars, ivars, sfvars, sdvars, gsvars, hvars, eqvars, ovars, bvars, pvars, mvars, cvars>>
SfOther == <<tvars, qvars, ivars, selvars, sdvars, gsvars, hvars, eqvars, ovars, bvars, pvars, mvars, cvars>>
SdOther == <<tvars, qvars, ivars, selvars, sfvars, gsvars, hvars, eqvars, ovars, bvars, pvars, mvars, cvars>>
GsOther == <<qvars, ivars, selvars, sfvars, sdvars, hvars, eqvars, ovars, bvars, pvars, mvars, cvars>>
EtOther == <<qvars, ivars, selvars, sfvars, gsvars, hvars, eqvars, bvars, pvars, mvars, cvars>>
HOther == <<tvars, qvars, ivars, selvars, sfvars, sdvars, gsvars, eqvars, ovars, bvars, pvars, mvars, cvars>>
EqOther == <<tvars, qvars, ivars, selvars, sfvars, sdvars, gsvars, hvars, ovars, bvars, pvars, mvars, cvars>>
OOther == <<tvars, qvars, ivars, selvars, sfvars, sdvars, gsvars, hvars, eqvars, bvars, pvars, mvars, cvars>>
BOther == <<tvars, qvars, ivars, selvars, sfvars, sdvars, gsvars, hvars, eqvars, ovars, pvars, mvars, cvars>>
POther == <<tvars, qvars, ivars, selvars, sfvars, sdvars, gsvars, hvars, eqvars, ovars, bvars, mvars, cvars>>
MOther == <<tvars, qvars, ivars, selvars, sfvars, sdvars, gsvars, hvars, eqvars, ovars, bvars, pvars, cvars>>
COther == <<tvars, qvars, ivars, selvars, sfvars, sdvars, gsvars, hvars, eqvars, ovars, bvars, pvars, mvars>>

(***************************************************************************)
(*                         ResourceThrottler                               *)
(***************************************************************************)

\* Model bounds of the throttler's clock.
MaxTime == 70
TickStep == 10

NoTime == -1

\* The default rules: ResourceThrottler.__init__.  reduction is kept in percent.
Rules ==
    [cpu     |-> [threshold |-> 80, reduction |-> 50, cooldown |-> 30, priority |-> 8],
     memory  |-> [threshold |-> 85, reduction |-> 40, cooldown |-> 60, priority |-> 9],
     disk_io |-> [threshold |-> 90, reduction |-> 60, cooldown |-> 20, priority |-> 7]]

get_rule(resource) == Rules[resource]

\* The readings the environment can show: at and just above each threshold.
CpuReadings == {80, 81}
MemoryReadings == {85, 86}
DiskReadings == {90, 91}

\* The lists apply_throttle can be given: what check_resources builds, in its order.
RuleLists ==
    {<<"cpu">>, <<"memory">>, <<"disk_io">>, <<"cpu", "memory">>,
     <<"cpu", "disk_io">>, <<"memory", "disk_io">>, <<"cpu", "memory", "disk_io">>}

\* check_resources, lines 81-94: the rules whose threshold is exceeded.
TriggeredRules(cpu, mem, disk) ==
    (IF cpu > get_rule("cpu").threshold THEN <<"cpu">> ELSE <<>>)
    \o (IF mem > get_rule("memory").threshold THEN <<"memory">> ELSE <<>>)
    \o (IF disk > get_rule("disk_io").threshold THEN <<"disk_io">> ELSE <<>>)

\* A mutant of InCooldown: the throttle holds only while every rule is cooling down.
InCooldownAll(rules, elapsed) ==
    \A i \in 1..Len(rules) : elapsed < get_rule(rules[i]).cooldown

\* check_resources, lines 68-71: some active rule's cooldown has not elapsed.
InCooldown(rules, elapsed) ==
    \E i \in 1..Len(rules) : elapsed < get_rule(rules[i]).cooldown

\* A mutant of SortByPriority: the rules stay in the order they were given.
KeepOrder(rules) == rules

\* rules.sort(key=priority, reverse=True): a stable sort, highest priority first.
RECURSIVE SortByPriority(_)
SortByPriority(rules) ==
    IF rules = <<>> THEN <<>>
    ELSE LET best == CHOOSE i \in 1..Len(rules) :
                        \A j \in 1..Len(rules) :
                            \/ get_rule(rules[j]).priority < get_rule(rules[i]).priority
                            \/ (get_rule(rules[j]).priority = get_rule(rules[i]).priority
                                /\ i <= j)
             rest == [k \in 1..(Len(rules) - 1) |->
                        IF k < best THEN rules[k] ELSE rules[k + 1]]
         IN  <<rules[best]>> \o SortByPriority(rest)

\* The longest cooldown among a list of rules (0 for the empty list).
RECURSIVE MaxCooldown(_)
MaxCooldown(rules) ==
    IF rules = <<>> THEN 0
    ELSE LET m == MaxCooldown(Tail(rules))
             c == get_rule(Head(rules)).cooldown
         IN  IF c > m THEN c ELSE m

\* The resources that have rules and callback lists.
Resources == {"cpu", "memory", "disk_io"}

\* Model bound: the number of callbacks registered.
MaxCallbacks == 3

\* The callbacks that can be registered: one that returns, one that raises.
Callbacks == {"handler", "failing"}

RECURSIVE CountCallbacks(_, _)
CountCallbacks(callbacks, resources) ==
    IF resources = {} THEN 0
    ELSE LET r == CHOOSE x \in resources : TRUE
         IN  Len(callbacks[r]) + CountCallbacks(callbacks, resources \ {r})

\* apply_throttle, lines 120-124, for one rule: each callback of the rule's
\* resource is called with the rule's reduction; it returns or raises.
RuleCalls(resource, callbacks) ==
    [i \in 1..Len(callbacks[resource]) |->
        [resource |-> resource,
         pos |-> i,
         callback |-> callbacks[resource][i],
         reduction |-> get_rule(resource).reduction,
         raised |-> callbacks[resource][i] = "failing"]]

\* The calls of lines 112-124 if no callback raised: rule after rule.
RECURSIVE AllCalls(_, _)
AllCalls(rules, callbacks) ==
    IF rules = <<>> THEN <<>>
    ELSE RuleCalls(Head(rules), callbacks) \o AllCalls(Tail(rules), callbacks)

\* A mutant of CallbackRun: the first callback that raises ends the loop.
CallbackRunAbort(rules, callbacks) ==
    LET calls == AllCalls(rules, callbacks)
        stops == {i \in 1..Len(calls) : calls[i].raised}
    IN  IF stops = {} THEN calls
        ELSE SubSeq(calls, 1, CHOOSE i \in stops : \A j \in stops : i <= j)

\* apply_throttle, lines 112-124: an exception of a callback is caught and
\* logged inside the inner loop (lines 121-124), and the loops go on.
CallbackRun(rules, callbacks) == AllCalls(rules, callbacks)

\* No check_resources call has just returned.
NoRet == [t \in Threads |-> "none"]

TInit ==
    /\ is_throttled = FALSE
    /\ throttle_start = NoTime
    /\ current_rules = <<>>
    /\ throttle_lock = "free"
    /\ t_now = 0
    /\ cpu_percent \in CpuReadings
    /\ memory_percent \in MemoryReadings
    /\ disk_io_percent \in DiskReadings
    /\ tpc = [t \in Threads |-> "idle"]
    /\ targ = [t \in Threads |-> <<>>]
    /\ tret = NoRet
    /\ throttle_callbacks = [r \in Resources |-> <<>>]
    /\ tapplied = <<>>
    /\ tcalls = <<>>

\* Time passes.
Tick ==
    /\ t_now + TickStep <= MaxTime
    /\ t_now' = t_now + TickStep
    /\ tret' = NoRet
    /\ tapplied' = <<>>
    /\ tcalls' = <<>>
    /\ UNCHANGED throttle_callbacks
    /\ UNCHANGED <<is_throttled, throttle_start, current_rules, throttle_lock,
                   cpu_percent, memory_percent, disk_io_percent, tpc, targ>>
    /\ UNCHANGED TOther

\* The load of the host changes.
Sample ==
    /\ \E c \in CpuReadings, m \in MemoryReadings, d \in DiskReadings :
          /\ <<c, m, d>> # <<cpu_percent, memory_percent, disk_io_percent>>
          /\ cpu_percent' = c
          /\ memory_percent' = m
          /\ disk_io_percent' = d
    /\ tret' = NoRet
    /\ tapplied' = <<>>
    /\ tcalls' = <<>>
    /\ UNCHANGED throttle_callbacks
    /\ UNCHANGED <<is_throttled, throttle_start, current_rules, throttle_lock,
                   t_now, tpc, targ>>
    /\ UNCHANGED TOther

\* check_resources, lines 63-100.  The body runs with throttle_lock held, so it
\* is one step for every other user of the lock.  The calls of release_throttle
\* (line 73) and apply_throttle (line 97) are made with the lock still held: the
\* callee's own "with self.throttle_lock" then waits for the same, non-reentrant
\* lock, and the thread stays at that call ("rt_lock", "at_lock") holding it.
check_resources(t) ==
    /\ tpc[t] = "idle"
    /\ throttle_lock = "free"
    /\ IF is_throttled /\ throttle_start # NoTime
       THEN IF InCooldown(current_rules, t_now - throttle_start)
            THEN /\ tret' = [NoRet EXCEPT ![t] = "True"]
                 /\ UNCHANGED <<throttle_lock, tpc, targ>>
            ELSE /\ tret' = [NoRet EXCEPT ![t] = "none"]
                 /\ throttle_lock' = t
                 /\ tpc' = [tpc EXCEPT ![t] = "rt_lock"]
                 /\ UNCHANGED targ
       ELSE LET triggered_rules ==
                    TriggeredRules(cpu_percent, memory_percent, disk_io_percent)
            IN  IF triggered_rules # <<>>
                THEN /\ tret' = [NoRet EXCEPT ![t] = "none"]
                     /\ throttle_lock' = t
                     /\ tpc' = [tpc EXCEPT ![t] = "at_lock"]
                     /\ targ' = [targ EXCEPT ![t] = triggered_rules]
                ELSE /\ tret' = [NoRet EXCEPT ![t] = "False"]
                     /\ UNCHANGED <<throttle_lock, tpc, targ>>
    /\ tapplied' = <<>>
    /\ tcalls' = <<>>
    /\ UNCHANGED <<is_throttled, throttle_start, current_rules, t_now,
                   cpu_percent, memory_percent, disk_io_percent, throttle_callbacks>>
    /\ UNCHANGED TOther

\* apply_throttle(rules), lines 102-124, called by a thread that does not hold
\* the lock: the state is set, the rules are sorted in place and the callbacks run.
apply_throttle(t, rules) ==
    /\ tpc[t] = "idle"
    /\ throttle_lock = "free"
    /\ is_throttled' = TRUE
    /\ throttle_start' = t_now
    /\ current_rules' = SortByPriority(rules)
    /\ tapplied' = rules
    /\ tcalls' = CallbackRun(SortByPriority(rules), throttle_callbacks)
    /\ tret' = NoRet
    /\ UNCHANGED throttle_callbacks
    /\ UNCHANGED <<throttle_lock, t_now, cpu_percent, memory_percent,
                   disk_io_percent, tpc, targ>>
    /\ UNCHANGED TOther

\* A mutant of release_throttle: the release gives the engine its threads back.
ReleaseThrottleRestores(t) ==
    /\ tpc[t] = "idle"
    /\ throttle_lock = "free"
    /\ is_throttled
    /\ is_throttled' = FALSE
    /\ throttle_start' = NoTime
    /\ current_rules' = <<>>
    /\ tret' = NoRet
    /\ tapplied' = <<>>
    /\ tcalls' = <<>>
    /\ max_threads' = 4
    /\ UNCHANGED <<throttle_callbacks, throttle_lock, t_now, cpu_percent,
                   memory_percent, disk_io_percent, tpc, targ>>
    /\ UNCHANGED <<batch_size, stats, is_scanning, run, sd_faults>>
    /\ UNCHANGED <<ovars, EtOther>>

\* release_throttle(), lines 126-133, called by a thread that does not hold the lock.
release_throttle(t) ==
    /\ tpc[t] = "idle"
    /\ throttle_lock = "free"
    /\ is_throttled
    /\ is_throttled' = FALSE
    /\ throttle_start' = NoTime
    /\ current_rules' = <<>>
    /\ tret' = NoRet
    /\ tapplied' = <<>>
    /\ tcalls' = <<>>
    /\ UNCHANGED throttle_callbacks
    /\ UNCHANGED <<throttle_lock, t_now, cpu_percent, memory_percent,
                   disk_io_percent, tpc, targ>>
    /\ UNCHANGED TOther

\* register_callback(resource, callback), lines 58-61: a resource without a
\* callback list is ignored.
register_callback(resource, callback) ==
    /\ CountCallbacks(throttle_callbacks, Resources) < MaxCallbacks
    /\ IF resource \in DOMAIN throttle_callbacks
       THEN throttle_callbacks' =
                [throttle_callbacks EXCEPT ![resource] = Append(@, callback)]
       ELSE UNCHANGED throttle_callbacks
    /\ tret' = NoRet
    /\ tapplied' = <<>>
    /\ tcalls' = <<>>
    /\ UNCHANGED <<is_throttled, throttle_start, current_rules, throttle_lock, t_now,
                   cpu_percent, memory_percent, disk_io_percent, tpc, targ>>
    /\ UNCHANGED TOther

TNext ==
    \/ Tick
    \/ Sample
    \/ \E t \in Threads : check_resources(t)
    \/ \E t \in Threads, rules \in RuleLists : apply_throttle(t, rules)
    \/ \E t \in Threads : release_throttle(t)

\* The throttler with callbacks: they are registered, and the throttle is
\* activated and released by direct calls.
TNextCallbacks ==
    \/ \E resource \in Resources \cup {"network"}, callback \in Callbacks :
          register_callback(resource, callback)
    \/ \E t \in Threads, rules \in RuleLists : apply_throttle(t, rules)
    \/ \E t \in Threads : release_throttle(t)

Writer == "t1"
Reader == "t2"

\* No get_status call has been made.
NoStatus ==
    [result |-> "none", is_throttled |-> FALSE, throttle_start |-> NoTime,
     active_rules |-> <<>>]

GsIdle == gs_status = NoStatus /\ gs_activation = <<>>

\* The positions of Writer inside apply_throttle.
ApplyPositions == {"at_start", "at_rules", "at_sort"}

\* What a step of this part leaves alone in the throttler.
GsKept == <<t_now, cpu_percent, memory_percent, disk_io_percent, throttle_callbacks>>

\* apply_throttle(rules), lines 104-105: the lock is taken, is_throttled is set.
AT_Flag(rules) ==
    /\ tpc[Writer] = "idle"
    /\ throttle_lock = "free"
    /\ throttle_lock' = Writer
    /\ targ' = [targ EXCEPT ![Writer] = rules]
    /\ is_throttled' = TRUE
    /\ tpc' = [tpc EXCEPT ![Writer] = "at_start"]
    /\ tret' = NoRet /\ tapplied' = <<>> /\ tcalls' = <<>>
    /\ UNCHANGED <<throttle_start, current_rules>>
    /\ UNCHANGED <<GsKept, gsvars, GsOther>>

\* apply_throttle, line 106: self.throttle_start = datetime.now().
AT_Start ==
    /\ tpc[Writer] = "at_start"
    /\ throttle_start' = t_now
    /\ tpc' = [tpc EXCEPT ![Writer] = "at_rules"]
    /\ tret' = NoRet /\ tapplied' = <<>> /\ tcalls' = <<>>
    /\ UNCHANGED <<is_throttled, current_rules, throttle_lock, targ>>
    /\ UNCHANGED <<GsKept, gsvars, GsOther>>

\* apply_throttle, line 107: self.current_rules = rules.
AT_Rules ==
    /\ tpc[Writer] = "at_rules"
    /\ current_rules' = targ[Writer]
    /\ tpc' = [tpc EXCEPT ![Writer] = "at_sort"]
    /\ tret' = NoRet /\ tapplied' = <<>> /\ tcalls' = <<>>
    /\ UNCHANGED <<is_throttled, throttle_start, throttle_lock, targ>>
    /\ UNCHANGED <<GsKept, gsvars, GsOther>>

\* apply_throttle, lines 110-124: the list, which current_rules now names, is
\* sorted in place, the callbacks run and the lock is released.
AT_Sort ==
    /\ tpc[Writer] = "at_sort"
    /\ current_rules' = SortByPriority(current_rules)
    /\ tapplied' = targ[Writer]
    /\ tcalls' = CallbackRun(SortByPriority(current_rules), throttle_callbacks)
    /\ throttle_lock' = "free"
    /\ tpc' = [tpc EXCEPT ![Writer] = "idle"]
    /\ tret' = NoRet
    /\ UNCHANGED <<is_throttled, throttle_start, targ>>
    /\ UNCHANGED <<GsKept, gsvars, GsOther>>

\* release_throttle(), lines 128-131: the lock is taken; if the throttle is
\* active, is_throttled is cleared.
RT_Flag ==
    /\ tpc[Writer] = "idle"
    /\ throttle_lock = "free"
    /\ is_throttled
    /\ throttle_lock' = Writer
    /\ is_throttled' = FALSE
    /\ tpc' = [tpc EXCEPT ![Writer] = "rt_start"]
    /\ tret' = NoRet /\ tapplied' = <<>> /\ tcalls' = <<>>
    /\ UNCHANGED <<throttle_start, current_rules, targ>>
    /\ UNCHANGED <<GsKept, gsvars, GsOther>>

\* release_throttle, line 132: self.throttle_start = None.
RT_Start ==
    /\ tpc[Writer] = "rt_start"
    /\ throttle_start' = NoTime
    /\ tpc' = [tpc EXCEPT ![Writer] = "rt_rules"]
    /\ tret' = NoRet /\ tapplied' = <<>> /\ tcalls' = <<>>
    /\ UNCHANGED <<is_throttled, current_rules, throttle_lock, targ>>
    /\ UNCHANGED <<GsKept, gsvars, GsOther>>

\* release_throttle, line 133: self.current_rules.clear(); the lock is released.
RT_Rules ==
    /\ tpc[Writer] = "rt_rules"
    /\ current_rules' = <<>>
    /\ throttle_lock' = "free"
    /\ tpc' = [tpc EXCEPT ![Writer] = "idle"]
    /\ tret' = NoRet /\ tapplied' = <<>> /\ tcalls' = <<>>
    /\ UNCHANGED <<is_throttled, throttle_start, targ>>
    /\ UNCHANGED <<GsKept, gsvars, GsOther>>

\* The rules of the activation in force: those apply_throttle is setting, or
\* else those it has set.
Activation ==
    IF tpc[Writer] \in ApplyPositions THEN targ[Writer] ELSE current_rules

\* get_status(), line 154: 'is_throttled': self.is_throttled.
GS_Flag ==
    /\ tpc[Reader] = "idle"
    /\ gs_status' = [NoStatus EXCEPT !.is_throttled = is_throttled]
    /\ gs_activation' = Activation
    /\ tpc' = [tpc EXCEPT ![Reader] = "gs_start"]
    /\ tret' = NoRet /\ tapplied' = <<>> /\ tcalls' = <<>>
    /\ UNCHANGED <<is_throttled, throttle_start, current_rules, throttle_lock, targ>>
    /\ UNCHANGED <<GsKept, GsOther>>

\* get_status, line 155: "... if self.throttle_start else None", the test.
GS_Start ==
    /\ tpc[Reader] = "gs_start"
    /\ tpc' = [tpc EXCEPT ![Reader] =
                 IF throttle_start # NoTime THEN "gs_isoformat" ELSE "gs_rules"]
    /\ tret' = NoRet /\ tapplied' = <<>> /\ tcalls' = <<>>
    /\ UNCHANGED <<is_throttled, throttle_start, current_rules, throttle_lock, targ>>
    /\ UNCHANGED <<GsKept, gsvars, GsOther>>

\* get_status, line 155: self.throttle_start.isoformat(), a second read of the
\* attribute; on None the call raises AttributeError.
GS_Isoformat ==
    /\ tpc[Reader] = "gs_isoformat"
    /\ IF throttle_start # NoTime
       THEN /\ gs_status' = [gs_status EXCEPT !.throttle_start = throttle_start]
            /\ tpc' = [tpc EXCEPT ![Reader] = "gs_rules"]
       ELSE /\ gs_status' = [gs_status EXCEPT !.result = "raised"]
            /\ tpc' = [tpc EXCEPT ![Reader] = "idle"]
    /\ tret' = NoRet /\ tapplied' = <<>> /\ tcalls' = <<>>
    /\ UNCHANGED gs_activation
    /\ UNCHANGED <<is_throttled, throttle_start, current_rules, throttle_lock, targ>>
    /\ UNCHANGED <<GsKept, GsOther>>

\* get_status, lines 156-171: the active rules are listed from
\* self.current_rules, and the dict is returned.
GS_Rules ==
    /\ tpc[Reader] = "gs_rules"
    /\ gs_status' = [gs_status EXCEPT !.active_rules = current_rules,
                                !.result = "returned"]
    /\ tpc' = [tpc EXCEPT ![Reader] = "idle"]
    /\ tret' = NoRet /\ tapplied' = <<>> /\ tcalls' = <<>>
    /\ UNCHANGED gs_activation
    /\ UNCHANGED <<is_throttled, throttle_start, current_rules, throttle_lock, targ>>
    /\ UNCHANGED <<GsKept, GsOther>>

GsNext ==
    \/ \E rules \in RuleLists : AT_Flag(rules)
    \/ AT_Start
    \/ AT_Rules
    \/ AT_Sort
    \/ RT_Flag
    \/ RT_Start
    \/ RT_Rules
    \/ GS_Flag
    \/ GS_Start
    \/ GS_Isoformat
    \/ GS_Rules

(***************************************************************************)
(*                         QuarantineManager                               *)
(***************************************************************************)

\* Model bounds of the store: the timestamps, the calls made, the I/O errors.
MaxStamp == 1
MaxCalls == 2
MaxFaults == 1

\* The files that can be quarantined, and the contents a file can have.
Paths == {"dir/x", "dir/y"}
Contents == {"c1", "c2"}

\* file_path.name
BaseName(path) == IF path = "dir/x" THEN "x" ELSE "y"

\* quarantine_file, lines 56-57: f"{timestamp}_{file_path.name}".
QuarantineName(timestamp, path) == <<timestamp, BaseName(path)>>

Names == {QuarantineName(ts, path) : ts \in 0..MaxStamp, path \in Paths}

\* hashlib.sha256(content).hexdigest(): different contents, different digests.
Hash(content) == [sha256 |-> content]

\* self.encryption_key, generated once in __init__.
encryption_key == "key1"

\* Fernet(key).encrypt(content): a token that names the key it was made with.
Encrypt(key, content) == [kind |-> "fernet", key |-> key, plain |-> content]

\* os.urandom(file_size), as the content of a blob.
RandomBlob == [kind |-> "random", key |-> "none", plain |-> "none"]

\* Fernet(key).decrypt(token) succeeds on a token made with the same key only.
CanDecrypt(key, token) == token.kind = "fernet" /\ token.key = key

\* A mutant of Decrypt: the token is written back as it was stored.
DecryptRaw(key, token) == "ciphertext"

\* Fernet(key).decrypt(token), for a token that CanDecrypt accepts.
Decrypt(key, token) == token.plain

EmptyMap == [n \in {} |-> n]

\* The permission bits of the files when the store is created: dir/x is an
\* executable (0o755), dir/y is not (0o644).
OriginalModes == [path \in Paths |-> IF path = "dir/x" THEN 493 ELSE 420]

\* open(path, 'wb') creates a missing file with 0o666 & ~umask, here with the
\* usual umask 0o022: 0o644.  No umask gives it an execute bit.
CreatedMode == 420

\* A path without a file has no permission bits.
NoMode == 0

\* A mutant of MapPut: nothing is stored.
MapPutNothing(map, name, entry) == map

\* metadata[name] = entry; open(quarantine_path, 'wb').write(...)
MapPut(map, name, entry) ==
    [n \in DOMAIN map \cup {name} |-> IF n = name THEN entry ELSE map[n]]

\* metadata.pop(name, None); file.unlink()
MapRemove(map, name) == [n \in DOMAIN map \ {name} |-> map[n]]

NoName == <<0, "none">>

\* QuarantineEntry (threat_info and size are carried along unchanged).
NoEntry ==
    [original_path |-> "none", timestamp |-> 0, file_hash |-> Hash("none"),
     quarantine_path |-> NoName]

NoLoc ==
    [op |-> "none", path |-> "none", name |-> NoName, content |-> "none",
     entry |-> NoEntry, loaded |-> EmptyMap, load_error |-> FALSE]

NoRes == [op |-> "none", path |-> "none", name |-> NoName, ok |-> "none",
          entry |-> NoEntry, load_error |-> FALSE]

NoRoundTrip == [name |-> NoName, path |-> "none", content |-> "none", mode |-> NoMode]

Snapshot == [files |-> files, modes |-> modes, blobs |-> blobs, metadata |-> metadata]

\* QuarantineManager.__init__ and _init_quarantine_storage: an empty store.
QInit ==
    /\ files \in [Paths -> Contents]
    /\ modes = OriginalModes
    /\ blobs = EmptyMap
    /\ metadata = EmptyMap
    /\ q_now = 0
    /\ qpc = [t \in Threads |-> "idle"]
    /\ qloc = [t \in Threads |-> NoLoc]
    /\ qpre = [t \in Threads |-> Snapshot]
    /\ qres = [t \in Threads |-> NoRes]
    /\ roundtrip = NoRoundTrip
    /\ q_calls = 0
    /\ q_faults = 0

\* An I/O operation may fail while the budget of errors lasts.
Faults == IF q_faults < MaxFaults THEN {FALSE, TRUE} ELSE {FALSE}

CountFault(fault) == q_faults' = IF fault THEN q_faults + 1 ELSE q_faults

\* The call of thread t returns ok ("True" or "False").
Return(t, ok) ==
    /\ qpc' = [qpc EXCEPT ![t] = "idle"]
    /\ qres' = [qres EXCEPT ![t] = [op |-> qloc[t].op, path |-> qloc[t].path,
                                    name |-> qloc[t].name, ok |-> ok,
                                    entry |-> qloc[t].entry,
                                    load_error |-> qloc[t].load_error]]
    /\ qloc' = [qloc EXCEPT ![t] = NoLoc]
    /\ roundtrip' =
          IF qloc[t].op = "quarantine" /\ ok = "True"
          THEN [name |-> qloc[t].name, path |-> qloc[t].path,
                content |-> qloc[t].content,
                mode |-> qpre[t].modes[qloc[t].path]]
          ELSE roundtrip

\* The call of thread t goes on at position pc with the locals loc.
Goto(t, pc, loc) ==
    /\ qpc' = [qpc EXCEPT ![t] = pc]
    /\ qloc' = [qloc EXCEPT ![t] = loc]
    /\ UNCHANGED <<qres, roundtrip>>

\* Time passes.
QTick ==
    /\ q_now < MaxStamp
    /\ q_now' = q_now + 1
    /\ UNCHANGED <<files, blobs, metadata, qpc, qloc, qpre, qres, roundtrip,
                   q_calls, q_faults>>
    /\ UNCHANGED modes
    /\ UNCHANGED QOther

\* quarantine_file(file_path, threat_info), lines 52-58: the name is made.
QF_Start(t, path) ==
    /\ qpc[t] = "idle"
    /\ q_calls < MaxCalls
    /\ q_calls' = q_calls + 1
    /\ qpc' = [qpc EXCEPT ![t] = "qf_read"]
    /\ qloc' = [qloc EXCEPT ![t] =
                  [NoLoc EXCEPT !.op = "quarantine", !.path = path,
                                !.name = QuarantineName(q_now, path)]]
    /\ qpre' = [qpre EXCEPT ![t] = Snapshot]
    /\ roundtrip' = NoRoundTrip
    /\ UNCHANGED <<files, blobs, metadata, q_now, qres, q_faults>>
    /\ UNCHANGED modes
    /\ UNCHANGED QOther

\* quarantine_file, lines 60-63: the file is read and encrypted.
QF_Read(t) ==
    /\ qpc[t] = "qf_read"
    /\ \E fault \in Faults :
          /\ CountFault(fault)
          /\ IF fault \/ files[qloc[t].path] = "absent"
             THEN Return(t, "False")
             ELSE Goto(t, "qf_write",
                       [qloc[t] EXCEPT !.content = files[qloc[t].path]])
    /\ UNCHANGED <<files, blobs, metadata, q_now, qpre, q_calls>>
    /\ UNCHANGED modes
    /\ UNCHANGED QOther

\* quarantine_file, lines 65-67: the encrypted content is written to the blob.
QF_Write(t) ==
    /\ qpc[t] = "qf_write"
    /\ \E fault \in Faults :
          /\ CountFault(fault)
          /\ IF fault
             THEN /\ Return(t, "False")
                  /\ UNCHANGED blobs
             ELSE /\ blobs' = MapPut(blobs, qloc[t].name,
                                     Encrypt(encryption_key, qloc[t].content))
                  /\ Goto(t, "qf_entry", qloc[t])
    /\ UNCHANGED <<files, metadata, q_now, qpre, q_calls>>
    /\ UNCHANGED modes
    /\ UNCHANGED QOther

\* quarantine_file, lines 69-77: the entry is made; _calculate_hash and stat
\* read the original file again.
QF_Entry(t) ==
    /\ qpc[t] = "qf_entry"
    /\ \E fault \in Faults :
          /\ CountFault(fault)
          /\ IF fault \/ files[qloc[t].path] = "absent"
             THEN Return(t, "False")
             ELSE Goto(t, "qf_load",
                       [qloc[t] EXCEPT !.entry =
                           [original_path |-> qloc[t].path,
                            timestamp |-> qloc[t].name[1],
                            file_hash |-> Hash(files[qloc[t].path]),
                            quarantine_path |-> qloc[t].name]])
    /\ UNCHANGED <<files, blobs, metadata, q_now, qpre, q_calls>>
    /\ UNCHANGED modes
    /\ UNCHANGED QOther

\* _load_metadata, lines 178-184, in _add_quarantine_entry and
\* _remove_quarantine_entry: a read error is logged and {} is returned.
LoadMetadata(t, next) ==
    \E fault \in Faults :
        /\ CountFault(fault)
        /\ Goto(t, next, [qloc[t] EXCEPT
                             !.loaded = IF fault THEN EmptyMap ELSE metadata,
                             !.load_error = fault])

\* _add_quarantine_entry, line 168.
QF_Load(t) ==
    /\ qpc[t] = "qf_load"
    /\ LoadMetadata(t, "qf_save")
    /\ UNCHANGED <<files, blobs, metadata, q_now, qpre, q_calls>>
    /\ UNCHANGED modes
    /\ UNCHANGED QOther

\* _add_quarantine_entry, lines 169-170, and _save_metadata: the mapping that
\* was loaded is written back with the new entry.  write_text opens the file
\* for writing, which empties it, and then writes: an error at the opening
\* leaves metadata.json as it was, an error later leaves it truncated, and a
\* truncated file is read as {} by _load_metadata.
QF_Save(t) ==
    /\ qpc[t] = "qf_save"
    /\ \E fault \in Faults, truncated \in BOOLEAN :
          /\ CountFault(fault)
          /\ IF fault
             THEN /\ Return(t, "False")
                  /\ metadata' = IF truncated THEN EmptyMap ELSE metadata
             ELSE /\ ~truncated
                  /\ metadata' = MapPut(qloc[t].loaded, qloc[t].name, qloc[t].entry)
                  /\ Goto(t, "qf_delete", qloc[t])
    /\ UNCHANGED <<files, blobs, q_now, qpre, q_calls>>
    /\ UNCHANGED modes
    /\ UNCHANGED QOther

\* _secure_delete(file_path), lines 194-215, on the original file: nothing to do
\* for a missing file; an error before the first write leaves the file as it
\* was, an error later leaves it overwritten with random data.
QF_Delete(t) ==
    /\ qpc[t] = "qf_delete"
    /\ \E fault \in Faults, overwritten \in BOOLEAN :
          /\ CountFault(fault)
          /\ IF files[qloc[t].path] = "absent"
             THEN /\ ~fault /\ ~overwritten
                  /\ Return(t, "True")
                  /\ UNCHANGED files
             ELSE IF fault
             THEN /\ Return(t, "False")
                  /\ files' = IF overwritten
                              THEN [files EXCEPT ![qloc[t].path] = "random"]
                              ELSE files
             ELSE /\ ~overwritten
                  /\ files' = [files EXCEPT ![qloc[t].path] = "absent"]
                  /\ Return(t, "True")
    /\ modes' = IF files'[qloc[t].path] = "absent"
                THEN [modes EXCEPT ![qloc[t].path] = NoMode]
                ELSE modes
    /\ UNCHANGED <<blobs, metadata, q_now, qpre, q_calls>>
    /\ UNCHANGED QOther


\* restore_file(quarantine_name), line 92.
RF_Start(t, name) ==
    /\ qpc[t] = "idle"
    /\ q_calls < MaxCalls
    /\ q_calls' = q_calls + 1
    /\ qpc' = [qpc EXCEPT ![t] = "rf_load"]
    /\ qloc' = [qloc EXCEPT ![t] = [NoLoc EXCEPT !.op = "restore", !.name = name]]
    /\ qpre' = [qpre EXCEPT ![t] = Snapshot]
    /\ roundtrip' = IF roundtrip.name = name THEN roundtrip ELSE NoRoundTrip
    /\ UNCHANGED <<files, blobs, metadata, q_now, qres, q_faults>>
    /\ UNCHANGED modes
    /\ UNCHANGED QOther

\* restore_file, lines 96-102, and delete_quarantined_file, lines 133-138: the
\* entry is looked up in the metadata; a name without an entry is an error.
Lookup(t, next) ==
    \E fault \in Faults :
        /\ CountFault(fault)
        /\ LET loaded == IF fault THEN EmptyMap ELSE metadata
           IN  IF qloc[t].name \notin DOMAIN loaded
               THEN Return(t, "False")
               ELSE Goto(t, next, [qloc[t] EXCEPT
                                      !.entry = loaded[qloc[t].name],
                                      !.path = loaded[qloc[t].name].original_path])

RF_Load(t) ==
    /\ qpc[t] = "rf_load"
    /\ Lookup(t, "rf_read")
    /\ UNCHANGED <<files, blobs, metadata, q_now, qpre, q_calls>>
    /\ UNCHANGED modes
    /\ UNCHANGED QOther

\* restore_file, lines 109-112: the blob is read and decrypted.
RF_Read(t) ==
    /\ qpc[t] = "rf_read"
    /\ \E fault \in Faults :
          /\ CountFault(fault)
          /\ LET quarantine_path == qloc[t].entry.quarantine_path
             IN  IF \/ fault
                    \/ quarantine_path \notin DOMAIN blobs
                    \/ ~CanDecrypt(encryption_key, blobs[quarantine_path])
                 THEN Return(t, "False")
                 ELSE Goto(t, "rf_write",
                           [qloc[t] EXCEPT !.content =
                               Decrypt(encryption_key, blobs[quarantine_path])])
    /\ UNCHANGED <<files, blobs, metadata, q_now, qpre, q_calls>>
    /\ UNCHANGED modes
    /\ UNCHANGED QOther

\* restore_file, lines 114-117: the content is written to the original path;
\* a file that is created gets the default permission bits, one that exists
\* keeps its own.  No chmod follows.
RF_Write(t) ==
    /\ qpc[t] = "rf_write"
    /\ \E fault \in Faults :
          /\ CountFault(fault)
          /\ IF fault
             THEN /\ Return(t, "False")
                  /\ UNCHANGED <<files, modes>>
             ELSE /\ files' = [files EXCEPT ![qloc[t].entry.original_path] =
                                  qloc[t].content]
                  /\ modes' = IF files[qloc[t].entry.original_path] = "absent"
                              THEN [modes EXCEPT ![qloc[t].entry.original_path] =
                                       CreatedMode]
                              ELSE modes
                  /\ Goto(t, "rf_unlink", qloc[t])
    /\ UNCHANGED <<blobs, metadata, q_now, qpre, q_calls>>
    /\ UNCHANGED QOther

\* restore_file, line 120: quarantine_path.unlink().
RF_Unlink(t) ==
    /\ qpc[t] = "rf_unlink"
    /\ \E fault \in Faults :
          /\ CountFault(fault)
          /\ IF fault \/ qloc[t].entry.quarantine_path \notin DOMAIN blobs
             THEN /\ Return(t, "False")
                  /\ UNCHANGED blobs
             ELSE /\ blobs' = MapRemove(blobs, qloc[t].entry.quarantine_path)
                  /\ Goto(t, "re_load", qloc[t])
    /\ UNCHANGED <<files, metadata, q_now, qpre, q_calls>>
    /\ UNCHANGED modes
    /\ UNCHANGED QOther

\* _remove_quarantine_entry, line 174.
RE_Load(t) ==
    /\ qpc[t] = "re_load"
    /\ LoadMetadata(t, "re_save")
    /\ UNCHANGED <<files, blobs, metadata, q_now, qpre, q_calls>>
    /\ UNCHANGED modes
    /\ UNCHANGED QOther

\* _remove_quarantine_entry, lines 175-176, and _save_metadata: the mapping that
\* was loaded is written back without the entry, and the call returns True; an
\* error leaves metadata.json as it was or truncated, as in QF_Save.
RE_Save(t) ==
    /\ qpc[t] = "re_save"
    /\ \E fault \in Faults, truncated \in BOOLEAN :
          /\ CountFault(fault)
          /\ IF fault
             THEN /\ Return(t, "False")
                  /\ metadata' = IF truncated THEN EmptyMap ELSE metadata
             ELSE /\ ~truncated
                  /\ metadata' = MapRemove(qloc[t].loaded, qloc[t].name)
                  /\ Return(t, "True")
    /\ UNCHANGED <<files, blobs, q_now, qpre, q_calls>>
    /\ UNCHANGED modes
    /\ UNCHANGED QOther

\* delete_quarantined_file(quarantine_name), line 130.
DF_Start(t, name) ==
    /\ qpc[t] = "idle"
    /\ q_calls < MaxCalls
    /\ q_calls' = q_calls + 1
    /\ qpc' = [qpc EXCEPT ![t] = "df_load"]
    /\ qloc' = [qloc EXCEPT ![t] = [NoLoc EXCEPT !.op = "delete", !.name = name]]
    /\ qpre' = [qpre EXCEPT ![t] = Snapshot]
    /\ roundtrip' = NoRoundTrip
    /\ UNCHANGED <<files, blobs, metadata, q_now, qres, q_faults>>
    /\ UNCHANGED modes
    /\ UNCHANGED QOther

DF_Load(t) ==
    /\ qpc[t] = "df_load"
    /\ Lookup(t, "df_delete")
    /\ UNCHANGED <<files, blobs, metadata, q_now, qpre, q_calls>>
    /\ UNCHANGED modes
    /\ UNCHANGED QOther

\* _secure_delete(quarantine_path), lines 194-215, on the blob: nothing to do
\* for a missing blob; an error before the first write leaves the blob as it
\* was, an error later leaves it overwritten with random data.
DF_Delete(t) ==
    /\ qpc[t] = "df_delete"
    /\ \E fault \in Faults, overwritten \in BOOLEAN :
          /\ CountFault(fault)
          /\ LET quarantine_path == qloc[t].entry.quarantine_path
             IN  IF quarantine_path \notin DOMAIN blobs
                 THEN /\ ~fault /\ ~overwritten
                      /\ Goto(t, "re_load", qloc[t])
                      /\ UNCHANGED blobs
                 ELSE IF fault
                 THEN /\ Return(t, "False")
                      /\ blobs' = IF overwritten
                                  THEN [blobs EXCEPT ![quarantine_path] = RandomBlob]
                                  ELSE blobs
                 ELSE /\ ~overwritten
                      /\ blobs' = MapRemove(blobs, quarantine_path)
                      /\ Goto(t, "re_load", qloc[t])
    /\ UNCHANGED <<files, metadata, q_now, qpre, q_calls>>
    /\ UNCHANGED modes
    /\ UNCHANGED QOther

\* One step of thread t in the store.
QStep(t) ==
    \/ \E path \in Paths : QF_Start(t, path)
    \/ QF_Read(t)
    \/ QF_Write(t)
    \/ QF_Entry(t)
    \/ QF_Load(t)
    \/ QF_Save(t)
    \/ QF_Delete(t)
    \/ \E name \in Names : RF_Start(t, name)
    \/ RF_Load(t)
    \/ RF_Read(t)
    \/ RF_Write(t)
    \/ RF_Unlink(t)
    \/ RE_Load(t)
    \/ RE_Save(t)
    \/ \E name \in Names : DF_Start(t, name)
    \/ DF_Load(t)
    \/ DF_Delete(t)

\* The calls are made one after the other, by one thread.
QNextSeq == QTick \/ QStep("t1")

\* One step of thread t in quarantine_file.
QFStep(t) ==
    \/ \E path \in Paths : QF_Start(t, path)
    \/ QF_Read(t)
    \/ QF_Write(t)
    \/ QF_Entry(t)
    \/ QF_Load(t)
    \/ QF_Save(t)
    \/ QF_Delete(t)

\* quarantine_file is called by two threads.
QNextConc == QTick \/ \E t \in Threads : QFStep(t)


(***************************************************************************)
(*            ScanEngine.quarantine_file and restore_file                  *)
(***************************************************************************)

\* Two files with the same base name, in different directories.
EnginePaths == {"a/x", "b/x"}

\* file_path.name
EngineBaseName(path) == "x"

\* A path without a file.
NoFile == [content |-> "absent", mode |-> NoMode]

\* The files the engine can be given: any content, executable or not.
EngineFiles == [content : Contents, mode : {493, 420}]

\* self.quarantine_key, generated once in __init__ (line 96).
quarantine_key == "key2"

\* base64.b64encode(key).decode(), line 348, and base64.b64decode, line 378.
b64encode(key) == [b64 |-> key]
b64decode(text) == text.b64

\* file_hash[:8], line 326: different digests, different prefixes.
ShortHash(file_hash) == [prefix8 |-> file_hash.sha256]

\* quarantine_file, lines 324-326: f"{timestamp}_{file_hash[:8]}_{file_path.name}".
EngineQuarantineName(timestamp, file_hash, path) ==
    <<timestamp, ShortHash(file_hash), EngineBaseName(path)>>

EngineNames ==
    {EngineQuarantineName(ts, Hash(c), path) :
        ts \in 0..MaxStamp, c \in Contents, path \in EnginePaths}

\* overwrote: the name the call made was that of a blob or an entry in the store.
NoEngineRet ==
    [op |-> "none", path |-> "none", name |-> <<>>, ok |-> "none",
     overwrote |-> FALSE]

\* ScanEngine.__init__, lines 94-101, and _init_quarantine_metadata: an empty
\* store.
EqInit ==
    /\ eq_files \in [EnginePaths -> EngineFiles]
    /\ eq_blobs = EmptyMap
    /\ eq_metadata = EmptyMap
    /\ eq_now = 0
    /\ eq_ret = NoEngineRet
    /\ eq_calls = 0

EqIdle == EqInit /\ eq_files = [p \in EnginePaths |-> [content |-> "c1", mode |-> 420]]

\* Time passes.
EqTick ==
    /\ eq_now < MaxStamp
    /\ eq_now' = eq_now + 1
    /\ UNCHANGED <<eq_files, eq_blobs, eq_metadata, eq_ret, eq_calls>>
    /\ UNCHANGED EqOther

\* quarantine_file(file_path, threats), lines 320-360.  For a missing file
\* calculate_file_hash returns None and file_hash[:8] raises: False.
engine_quarantine_file(path) ==
    /\ eq_calls < MaxCalls
    /\ eq_calls' = eq_calls + 1
    /\ IF eq_files[path] = NoFile
       THEN /\ eq_ret' = [op |-> "quarantine", path |-> path, name |-> <<>>,
                          ok |-> "False", overwrote |-> FALSE]
            /\ UNCHANGED <<eq_files, eq_blobs, eq_metadata>>
       ELSE LET file_hash == Hash(eq_files[path].content)
                quarantine_name == EngineQuarantineName(eq_now, file_hash, path)
            IN  /\ eq_blobs' = MapPut(eq_blobs, quarantine_name,
                                      Encrypt(quarantine_key, eq_files[path].content))
                /\ eq_metadata' =
                      MapPut(eq_metadata, quarantine_name,
                             [original_path |-> path,
                              timestamp |-> eq_now,
                              file_hash |-> file_hash,
                              original_permissions |-> eq_files[path].mode,
                              encryption_key |-> b64encode(quarantine_key)])
                /\ eq_files' = [eq_files EXCEPT ![path] = NoFile]
                /\ eq_ret' = [op |-> "quarantine", path |-> path,
                              name |-> quarantine_name, ok |-> "True",
                              overwrote |-> quarantine_name \in
                                  DOMAIN eq_blobs \cup DOMAIN eq_metadata]
    /\ UNCHANGED eq_now
    /\ UNCHANGED EqOther

\* restore_file(quarantine_name), lines 362-400: the blob is decrypted with the
\* key read from the entry, written to the original path and given the
\* recorded permissions; then the blob and the entry are removed.
engine_restore_file(quarantine_name) ==
    /\ eq_calls < MaxCalls
    /\ eq_calls' = eq_calls + 1
    /\ IF \/ quarantine_name \notin DOMAIN eq_metadata
          \/ quarantine_name \notin DOMAIN eq_blobs
          \/ ~CanDecrypt(b64decode(eq_metadata[quarantine_name].encryption_key),
                         eq_blobs[quarantine_name])
       THEN /\ eq_ret' = [op |-> "restore", path |-> "none",
                          name |-> quarantine_name, ok |-> "False",
                          overwrote |-> FALSE]
            /\ UNCHANGED <<eq_files, eq_blobs, eq_metadata>>
       ELSE LET file_meta == eq_metadata[quarantine_name]
                decryption_key == b64decode(file_meta.encryption_key)
            IN  /\ eq_files' =
                      [eq_files EXCEPT ![file_meta.original_path] =
                          [content |-> Decrypt(decryption_key, eq_blobs[quarantine_name]),
                           mode |-> file_meta.original_permissions]]
                /\ eq_blobs' = MapRemove(eq_blobs, quarantine_name)
                /\ eq_metadata' = MapRemove(eq_metadata, quarantine_name)
                /\ eq_ret' = [op |-> "restore", path |-> file_meta.original_path,
                              name |-> quarantine_name, ok |-> "True",
                              overwrote |-> FALSE]
    /\ UNCHANGED eq_now
    /\ UNCHANGED EqOther

EqNext ==
    \/ EqTick
    \/ \E path \in EnginePaths : engine_quarantine_file(path)
    \/ \E name \in EngineNames : engine_restore_file(name)

(***************************************************************************)
(*                        ScanIntensityManager                             *)
(***************************************************************************)

\* Model bound of the selector's clock, in minutes.
MaxMinutes == 11

\* self.adjustment_cooldown = timedelta(minutes=5)
adjustment_cooldown == 5

\* self.profiles
ProfileNames == {"aggressive", "balanced", "conservative", "minimal"}

StatusNames == {"healthy", "warning", "critical"}

\* get_current_health() with no sample in the history: {}.
NoHealth == [status |-> "none", memory_usage |-> 0, cpu_usage |-> 0, disk_usage |-> 0]

\* The health readings around every threshold of _select_profile.
AllHealth ==
    [status : StatusNames,
     memory_usage : {49, 50, 75, 76, 90, 91},
     cpu_usage : {39, 40, 70, 71, 85, 86},
     disk_usage : {69, 70, 85, 86, 95, 96}]

\* The health readings adjust_intensity is tried with: one per profile and more.
HealthSamples ==
    [status : StatusNames, memory_usage : {49, 76, 91}, cpu_usage : {39, 71},
     disk_usage : {69}]

\* A mutant of _select_profile: the CPU is looked at before the memory.
SelectProfileCpuFirst(health) ==
    IF health.status = "critical" THEN "minimal"
    ELSE IF health.cpu_usage > 85 THEN "minimal"
    ELSE IF health.cpu_usage > 70 THEN "conservative"
    ELSE IF health.memory_usage > 90 THEN "minimal"
    ELSE IF health.memory_usage > 75 THEN "conservative"
    ELSE IF health.disk_usage > 95 THEN "minimal"
    ELSE IF health.disk_usage > 85 THEN "conservative"
    ELSE IF /\ health.status = "healthy"
            /\ health.memory_usage < 50
            /\ health.cpu_usage < 40
            /\ health.disk_usage < 70
         THEN "aggressive"
    ELSE "balanced"

\* _select_profile(health), lines 111-142.
select_profile(health) ==
    IF health.status = "critical" THEN "minimal"
    ELSE IF health.memory_usage > 90 THEN "minimal"
    ELSE IF health.memory_usage > 75 THEN "conservative"
    ELSE IF health.cpu_usage > 85 THEN "minimal"
    ELSE IF health.cpu_usage > 70 THEN "conservative"
    ELSE IF health.disk_usage > 95 THEN "minimal"
    ELSE IF health.disk_usage > 85 THEN "conservative"
    ELSE IF health.status = "healthy"
         THEN IF /\ health.memory_usage < 50
                 /\ health.cpu_usage < 40
                 /\ health.disk_usage < 70
              THEN "aggressive"
              ELSE "balanced"
    ELSE "balanced"

\* A mutant of InAdjustCooldown: the cooldown is 5 seconds, less than a minute.
InAdjustCooldownSeconds(now, last) == now - last < 1

\* adjust_intensity, line 79: the cooldown has not elapsed.
InAdjustCooldown(now, last) == now - last < adjustment_cooldown

\* ScanIntensityManager.__init__: the balanced profile, adjusted "now".
IInit ==
    /\ current_profile = "balanced"
    /\ last_adjustment = 0
    /\ i_now = 0
    /\ ihealth = NoHealth
    /\ iret = "none"
    /\ last_change = NoTime
    /\ last_set = 0

\* _select_profile has not been called.
SelIdle ==
    /\ sel_health = NoHealth
    /\ sel_profile = "none"

\* Time passes.
ITick ==
    /\ i_now < MaxMinutes
    /\ i_now' = i_now + 1
    /\ ihealth' = NoHealth
    /\ iret' = "none"
    /\ UNCHANGED <<current_profile, last_adjustment, last_change, last_set>>
    /\ UNCHANGED IOther

\* A mutant of adjust_intensity: a call after the cooldown stamps the time also
\* when the profile selected is the current one.
AdjustIntensityStamps(health) ==
    /\ ihealth' = health
    /\ IF InAdjustCooldown(i_now, last_adjustment) \/ health = NoHealth
       THEN /\ iret' = "None"
            /\ UNCHANGED <<current_profile, last_adjustment, last_change>>
       ELSE LET new_profile == select_profile(health)
            IN  /\ current_profile' = new_profile
                /\ last_adjustment' = i_now
                /\ last_change' = IF new_profile # current_profile
                                  THEN i_now ELSE last_change
                /\ iret' = IF new_profile # current_profile
                           THEN new_profile ELSE "None"
    /\ UNCHANGED <<i_now, last_set>>
    /\ UNCHANGED IOther

\* adjust_intensity(), lines 76-109, when get_current_health() returns health.
adjust_intensity(health) ==
    /\ ihealth' = health
    /\ IF InAdjustCooldown(i_now, last_adjustment)
       THEN /\ iret' = "None"
            /\ UNCHANGED <<current_profile, last_adjustment, last_change>>
       ELSE IF health = NoHealth
       THEN /\ iret' = "None"
            /\ UNCHANGED <<current_profile, last_adjustment, last_change>>
       ELSE LET new_profile == select_profile(health)
            IN  IF new_profile # current_profile
                THEN /\ current_profile' = new_profile
                     /\ last_adjustment' = i_now
                     /\ last_change' = i_now
                     /\ iret' = new_profile
                ELSE /\ iret' = "None"
                     /\ UNCHANGED <<current_profile, last_adjustment, last_change>>
    /\ UNCHANGED <<i_now, last_set>>
    /\ UNCHANGED IOther

\* A mutant of set_profile: the profile is set and the time is not stamped.
SetProfileNoStamp(profile_name) ==
    /\ IF profile_name \notin ProfileNames
       THEN UNCHANGED <<current_profile, last_adjustment, last_set>>
       ELSE /\ current_profile' = profile_name
            /\ last_set' = i_now
            /\ UNCHANGED last_adjustment
    /\ ihealth' = NoHealth
    /\ iret' = "none"
    /\ UNCHANGED <<i_now, last_change>>
    /\ UNCHANGED IOther

\* set_profile(profile_name), lines 152-160.
set_profile(profile_name) ==
    /\ IF profile_name \notin ProfileNames
       THEN UNCHANGED <<current_profile, last_adjustment, last_set>>
       ELSE /\ current_profile' = profile_name
            /\ last_adjustment' = i_now
            /\ last_set' = i_now
    /\ ihealth' = NoHealth
    /\ iret' = "none"
    /\ UNCHANGED <<i_now, last_change>>
    /\ UNCHANGED IOther

INext ==
    \/ ITick
    \/ \E health \in HealthSamples \cup {NoHealth} : adjust_intensity(health)
    \/ \E profile_name \in ProfileNames \cup {"turbo"} : set_profile(profile_name)

\* _select_profile is called with the reading sel_health.
SelectProfile ==
    /\ sel_profile = "none"
    /\ sel_profile' = select_profile(sel_health)
    /\ UNCHANGED sel_health
    /\ UNCHANGED SelOther

SelNext == SelectProfile

(***************************************************************************)
(*                         ScanEngine.scan_file                            *)
(***************************************************************************)

\* The size cutoff of scan_file, line 523.
MaxFileSize == 100 * 1024 * 1024

\* The byte contents a scanned file can have: the size in bytes, whether one of
\* the patterns of virus_signatures matches, and the YARA rules that match.
FileContents ==
    [empty  |-> [size |-> 0, pattern |-> FALSE, rules |-> <<>>],
     plain  |-> [size |-> 10, pattern |-> FALSE, rules |-> <<>>],
     script |-> [size |-> 40, pattern |-> TRUE, rules |-> <<>>],
     inject |-> [size |-> 40, pattern |-> FALSE, rules |-> <<"Suspicious_Behavior">>],
     ransom |-> [size |-> 60, pattern |-> TRUE,
                 rules |-> <<"Suspicious_Behavior", "Ransomware_Indicators">>],
     limit  |-> [size |-> MaxFileSize, pattern |-> FALSE, rules |-> <<>>],
     large  |-> [size |-> MaxFileSize + 1, pattern |-> TRUE,
                 rules |-> <<"Ransomware_Indicators">>]]

ContentNames == DOMAIN FileContents

\* file_path.suffix of the files scanned.
Suffixes == {".exe", ".EXE", ".Js", ".txt", ""}

\* str.lower() on a suffix.
Lower(suffix) ==
    CASE suffix = ".EXE" -> ".exe"
      [] suffix = ".Js" -> ".js"
      [] OTHER -> suffix

\* virus_signatures['suspicious_extensions']
suspicious_extensions ==
    {".exe", ".dll", ".scr", ".bat", ".cmd", ".vbs", ".js",
     ".jar", ".ps1", ".msi", ".com", ".pif", ".hta"}

\* hashlib.sha256 of a content: one digest per content.
sha256(content) == [sha256 |-> content]

\* virus_signatures['hashes']: e3b0c442...b855, the SHA-256 of no bytes at all.
hashes == {sha256("empty")}

\* _calculate_file_hash(file_path) of a file that can be read.
calculate_file_hash(file) == sha256(file.content)

NoHash == [sha256 |-> "none"]

Threat(type, severity) == [type |-> type, severity |-> severity]

\* A mutant of TooLarge: the cutoff is 1 GiB.
TooLargeGiB(size) == size > 1024 * 1024 * 1024

\* scan_file, line 523: the file is over the size cutoff.
TooLarge(size) == size > MaxFileSize

\* scan_file, lines 531-536.
ExtensionThreats(file) ==
    IF Lower(file.suffix) \in suspicious_extensions
    THEN <<Threat("suspicious_extension", 3)>>
    ELSE <<>>

\* A mutant of HashThreats: the hash is computed and never looked up.
HashThreatsNone(file_hash) == <<>>

\* scan_file, lines 540-545.
HashThreats(file_hash) ==
    IF file_hash \in hashes
    THEN <<Threat("known_malware", 10)>>
    ELSE <<>>

\* scan_file, lines 562-569: one finding at the first pattern that matches.
PatternThreats(content) ==
    IF FileContents[content].pattern
    THEN <<Threat("suspicious_pattern", 7)>>
    ELSE <<>>

\* scan_file, lines 572-579: one finding per rule that matches.
YaraThreats(content, compiler) ==
    IF compiler = "compiled"
    THEN [i \in 1..Len(FileContents[content].rules) |-> Threat("yara_match", 8)]
    ELSE <<>>

\* scan_file, lines 548-582: an error while the content is analysed is logged
\* and the findings made so far are kept.
ContentThreats(file, compiler) ==
    IF file.content_error
    THEN <<>>
    ELSE PatternThreats(file.content) \o YaraThreats(file.content, compiler)

\* What scan_file returns; reads counts the times the file is opened for its bytes.
ScanResult(status, threats, file_hash, reads) ==
    [status |-> status, threats |-> threats, hash |-> file_hash, reads |-> reads]

NoResult == ScanResult("none", <<>>, NoHash, 0)

\* A mutant of FinalStatus: a file is infected from severity 7 upwards only.
FinalStatusSevere(threats) ==
    IF \E i \in 1..Len(threats) : threats[i].severity >= 7
    THEN "infected"
    ELSE "clean"

\* scan_file, line 587: 'infected' if threats else 'clean'.
FinalStatus(threats) == IF threats # <<>> THEN "infected" ELSE "clean"

\* scan_file(file_path), lines 510-599.
scan_file_result(file, compiler) ==
    IF file.kind # "file"
    THEN ScanResult("error", <<>>, NoHash, 0)
    ELSE IF TooLarge(FileContents[file.content].size)
    THEN ScanResult("skipped", <<>>, NoHash, 0)
    ELSE IF file.hash_error
    THEN ScanResult("error", <<>>, NoHash, 1)
    ELSE LET file_hash == calculate_file_hash(file)
             threats == ExtensionThreats(file) \o HashThreats(file_hash)
                            \o ContentThreats(file, compiler)
         IN  ScanResult(FinalStatus(threats), threats, file_hash, 2)

\* The files scan_file is called on: a path that does not exist, a directory,
\* and regular files, some of which cannot be read.
ScannedFiles ==
    [kind : {"missing", "directory"}, suffix : Suffixes, content : {"empty"},
     hash_error : {FALSE}, content_error : {FALSE}]
    \cup
    [kind : {"file"}, suffix : Suffixes, content : ContentNames,
     hash_error : BOOLEAN, content_error : BOOLEAN]

\* ScanEngine.__init__, lines 256-260: the YARA rules compile, or do not.
SfInit ==
    /\ sf_file \in ScannedFiles
    /\ yara_compiler \in {"compiled", "None"}
    /\ sf_result = NoResult

\* One call of scan_file.
scan_file ==
    /\ sf_result = NoResult
    /\ sf_result' = scan_file_result(sf_file, yara_compiler)
    /\ UNCHANGED <<sf_file, yara_compiler>>
    /\ UNCHANGED SfOther

SfNext == scan_file

\* No file is being scanned.
SfIdle ==
    /\ sf_file = [kind |-> "missing", suffix |-> "", content |-> "empty",
                  hash_error |-> FALSE, content_error |-> FALSE]
    /\ yara_compiler = "compiled"
    /\ sf_result = NoResult

(***************************************************************************)
(*                       ScanEngine.scan_directory                         *)
(***************************************************************************)

\* Model bounds of a scan: the batch sizes tried, the I/O errors injected.
MaxBatchSize == 2
MaxScanFaults == 1

\* The invocations of scan_directory on one engine.
Runs == {"r1", "r2"}

\* os.cpu_count() of the hosts considered.
CpuCounts == {2, 4, 8}

\* ScanIntensityManager.profiles: the thread_count of each profile.
thread_count ==
    [aggressive |-> 8, balanced |-> 4, conservative |-> 2, minimal |-> 1]

\* ScanOptimizer.skip_extensions and skip_paths.
skip_extensions ==
    {".jpg", ".jpeg", ".png", ".gif", ".mp3", ".mp4", ".wav",
     ".avi", ".mov", ".mkv", ".pdf", ".zip", ".rar", ".7z"}
skip_paths == {"node_modules", "venv", ".git", ".svn", "__pycache__"}

\* The directory scanned, in the order directory.rglob('*') yields its entries:
\* the entries of the directory itself, then those of each subdirectory.
Tree ==
    <<[name |-> "a.txt", parts |-> {}, kind |-> "file", suffix |-> ".txt",
       content |-> "empty"],
      [name |-> "sub", parts |-> {}, kind |-> "directory", suffix |-> "",
       content |-> "empty"],
      [name |-> "d.jpg", parts |-> {}, kind |-> "file", suffix |-> ".jpg",
       content |-> "plain"],
      [name |-> "node_modules", parts |-> {}, kind |-> "directory", suffix |-> "",
       content |-> "empty"],
      [name |-> "e.Js", parts |-> {}, kind |-> "file", suffix |-> ".Js",
       content |-> "script"],
      [name |-> "sub/b.exe", parts |-> {"sub"}, kind |-> "file", suffix |-> ".exe",
       content |-> "plain"],
      [name |-> "sub/c.txt", parts |-> {"sub"}, kind |-> "file", suffix |-> ".txt",
       content |-> "plain"],
      [name |-> "node_modules/m.Js", parts |-> {"node_modules"}, kind |-> "file",
       suffix |-> ".Js", content |-> "script"]>>

\* ScanOptimizer.should_scan_file(file_path), lines 62-72.
should_scan_file(entry) ==
    IF Lower(entry.suffix) \in skip_extensions THEN FALSE
    ELSE IF entry.parts \cap skip_paths # {} THEN FALSE
    ELSE TRUE

\* _get_file_batches, line 641: the entries that go into a batch.
Scannable(entry) == entry.kind = "file" /\ should_scan_file(entry)

\* The files a run over Tree enumerates, by their position in Tree.
EnumeratedFiles == {i \in 1..Len(Tree) : Scannable(Tree[i])}

\* A mutant of GetFileBatch: the entry after a full batch is passed over.
RECURSIVE GetFileBatchSkip(_, _, _)
GetFileBatchSkip(cursor, batch, size) ==
    IF cursor > Len(Tree) THEN [batch |-> batch, cursor |-> cursor]
    ELSE IF Scannable(Tree[cursor])
    THEN IF Len(batch) + 1 >= size
         THEN [batch |-> Append(batch, cursor), cursor |-> cursor + 2]
         ELSE GetFileBatchSkip(cursor + 1, Append(batch, cursor), size)
    ELSE GetFileBatchSkip(cursor + 1, batch, size)

\* A mutant of GetFileBatchOf: a batch is closed when it has more than size files.
RECURSIVE GetFileBatchOver(_, _, _, _)
GetFileBatchOver(tree, cursor, batch, size) ==
    IF cursor > Len(tree) THEN [batch |-> batch, cursor |-> cursor]
    ELSE IF Scannable(tree[cursor])
    THEN IF Len(batch) + 1 > size
         THEN [batch |-> Append(batch, cursor), cursor |-> cursor + 1]
         ELSE GetFileBatchOver(tree, cursor + 1, Append(batch, cursor), size)
    ELSE GetFileBatchOver(tree, cursor + 1, batch, size)

\* _get_file_batches, lines 637-647, from one yield to the next, over the
\* entries of tree: the entries are taken in order from cursor on; the batch is
\* yielded when it has size files (line 643), or, if it is not empty, when the
\* entries are exhausted (lines 646-647).
RECURSIVE GetFileBatchOf(_, _, _, _)
GetFileBatchOf(tree, cursor, batch, size) ==
    IF cursor > Len(tree) THEN [batch |-> batch, cursor |-> cursor]
    ELSE IF Scannable(tree[cursor])
    THEN IF Len(batch) + 1 >= size
         THEN [batch |-> Append(batch, cursor), cursor |-> cursor + 1]
         ELSE GetFileBatchOf(tree, cursor + 1, Append(batch, cursor), size)
    ELSE GetFileBatchOf(tree, cursor + 1, batch, size)

\* _get_file_batches over the directory Tree.
GetFileBatch(cursor, batch, size) == GetFileBatchOf(Tree, cursor, batch, size)

\* ScanStats(start_time=...), line 614.
ZeroStats ==
    [files_scanned |-> 0, files_infected |-> 0, files_error |-> 0,
     bytes_scanned |-> 0]

\* _scan_batch, lines 762-766.  bytes_scanned is added to by calculate_file_hash
\* alone (line 294), which scan_file does not call: it hashes the file with
\* _calculate_file_hash (line 539), which counts nothing.
UpdateStats(st, result) ==
    [files_scanned |-> st.files_scanned + 1,
     files_infected |-> st.files_infected + (IF result.threats # <<>> THEN 1 ELSE 0),
     files_error |-> st.files_error + (IF result.status = "error" THEN 1 ELSE 0),
     bytes_scanned |-> st.bytes_scanned]

\* The file scan_file finds at an entry's path: as enumerated, or vanished since,
\* or not readable.
FileAt(entry, fault) ==
    [kind |-> IF fault = "vanished" THEN "missing" ELSE entry.kind,
     suffix |-> entry.suffix,
     content |-> entry.content,
     hash_error |-> fault = "unreadable",
     content_error |-> FALSE]

\* The result dictionary of scan_file for the file at position f of Tree, and
\* the bytes of the file that the call has read (lines 539 and 557-558).
FileResult(f, fault) ==
    LET res == scan_file_result(FileAt(Tree[f], fault), yara_compiler)
    IN  [file |-> f, status |-> res.status, threats |-> res.threats,
         bytes_read |-> IF res.reads = 2
                        THEN FileContents[Tree[f].content].size
                        ELSE 0]

\* The bytes read by the calls of scan_file that gave a list of results.
RECURSIVE BytesRead(_)
BytesRead(results) ==
    IF results = <<>> THEN 0
    ELSE results[1].bytes_read + BytesRead(Tail(results))

\* The elements of a sequence.
Range(seq) == {seq[i] : i \in 1..Len(seq)}

\* The files that have a result in a list of results.
ResultFiles(results) == {results[i].file : i \in 1..Len(results)}

\* A mutant of BatchCollected: one result is enough to leave the batch.
BatchStarted(batch, batch_results) == Len(batch_results) >= 1

\* _scan_batch, lines 756-778: as_completed is exhausted when every future of
\* the batch has been yielded, and the with block has then joined the pool.
BatchCollected(batch, batch_results) == Len(batch_results) = Len(batch)

\* An invocation that has not been made.
NoRun ==
    [pc |-> "idle", cursor |-> 1, batch |-> <<>>, pool_size |-> 0, submitted |-> 0,
     running |-> {}, done |-> <<>>, batch_results |-> <<>>, results |-> <<>>,
     dispatched |-> {}, cancelled |-> FALSE]

InProgress(r) == run[r].pc \in {"enumerate", "scan_batch", "sleep"}

\* ScanEngine.__init__, lines 89 and 189 (the batch size is scaled down).
SdInit ==
    /\ max_threads \in {IF n < 4 THEN n ELSE 4 : n \in CpuCounts}
    /\ batch_size \in 1..MaxBatchSize
    /\ stats = ZeroStats
    /\ is_scanning = FALSE
    /\ run = [r \in Runs |-> NoRun]
    /\ sd_faults = 0

\* No scan is made.
SdIdle ==
    /\ max_threads = 4
    /\ batch_size = 1
    /\ stats = ZeroStats
    /\ is_scanning = FALSE
    /\ run = [r \in Runs |-> NoRun]
    /\ sd_faults = 0

\* An I/O operation may fail while the budget of errors lasts.
SdFaults == IF sd_faults < MaxScanFaults THEN {FALSE, TRUE} ELSE {FALSE}

SdCountFault(fault) == sd_faults' = IF fault THEN sd_faults + 1 ELSE sd_faults

\* scan_directory, lines 611-617: the monitor is told, the counters are reset.
start_scan(r) ==
    /\ run[r].pc = "idle"
    /\ is_scanning' = TRUE
    /\ stats' = ZeroStats
    /\ run' = [run EXCEPT ![r] = [NoRun EXCEPT !.pc = "enumerate"]]
    /\ UNCHANGED <<max_threads, batch_size, sd_faults>>
    /\ UNCHANGED SdOther

\* scan_directory, line 618, and _get_file_batches: the generator runs to its
\* next yield.  is_file() raises for an entry it may not stat, and the exception
\* leaves scan_directory through its finally (lines 634-635).  With a batch,
\* _scan_batch begins: its pool has max_threads workers (line 748).  Without
\* one, scan_directory returns its results (line 632).
get_file_batch(r) ==
    /\ run[r].pc = "enumerate"
    /\ \E fault \in IF run[r].cursor <= Len(Tree) THEN SdFaults ELSE {FALSE} :
          /\ SdCountFault(fault)
          /\ IF fault
             THEN /\ run' = [run EXCEPT ![r].pc = "raised"]
                  /\ is_scanning' = FALSE
             ELSE LET next == GetFileBatch(run[r].cursor, <<>>, batch_size)
                  IN  IF next.batch = <<>>
                      THEN /\ run' = [run EXCEPT ![r].pc = "returned",
                                                 ![r].cursor = next.cursor]
                           /\ is_scanning' = FALSE
                      ELSE /\ run' = [run EXCEPT ![r].pc = "scan_batch",
                                                 ![r].cursor = next.cursor,
                                                 ![r].batch = next.batch,
                                                 ![r].pool_size = max_threads,
                                                 ![r].submitted = 0,
                                                 ![r].running = {},
                                                 ![r].done = <<>>,
                                                 ![r].batch_results = <<>>]
                           /\ UNCHANGED is_scanning
    /\ UNCHANGED <<max_threads, batch_size, stats>>
    /\ UNCHANGED SdOther

\* _scan_batch, lines 750-753: the next file of the batch is submitted.
submit(r) ==
    /\ run[r].pc = "scan_batch"
    /\ run[r].submitted < Len(run[r].batch)
    /\ run' = [run EXCEPT ![r].submitted = @ + 1,
                          ![r].dispatched = @ \cup {run[r].batch[run[r].submitted + 1]}]
    /\ UNCHANGED <<max_threads, batch_size, stats, is_scanning, sd_faults>>
    /\ UNCHANGED SdOther

\* A worker of the pool takes a submitted file: at most pool_size are at work.
worker_start(r, f) ==
    /\ run[r].pc = "scan_batch"
    /\ \E i \in 1..run[r].submitted : run[r].batch[i] = f
    /\ f \notin run[r].running
    /\ f \notin ResultFiles(run[r].done)
    /\ Cardinality(run[r].running) < run[r].pool_size
    /\ run' = [run EXCEPT ![r].running = @ \cup {f}]
    /\ UNCHANGED <<max_threads, batch_size, stats, is_scanning, sd_faults>>
    /\ UNCHANGED SdOther

\* The worker runs scan_file (line 751) on the file, which may have vanished or
\* may not be readable, and the future has its result.
worker_finish(r, f) ==
    /\ run[r].pc = "scan_batch"
    /\ f \in run[r].running
    /\ \E fault \in SdFaults :
          /\ SdCountFault(fault)
          /\ \E mode \in IF fault THEN {"vanished", "unreadable"} ELSE {"none"} :
                run' = [run EXCEPT ![r].running = @ \ {f},
                                   ![r].done = Append(@, FileResult(f, mode))]
    /\ UNCHANGED <<max_threads, batch_size, stats, is_scanning>>
    /\ UNCHANGED SdOther

\* _scan_batch, lines 756-766: once every file is submitted, as_completed yields
\* a future that is done; its result is appended and counted.
collect(r, f) ==
    /\ run[r].pc = "scan_batch"
    /\ run[r].submitted = Len(run[r].batch)
    /\ f \in ResultFiles(run[r].done) \ ResultFiles(run[r].batch_results)
    /\ LET result == CHOOSE res \in Range(run[r].done) : res.file = f
       IN  /\ run' = [run EXCEPT ![r].batch_results = Append(@, result)]
           /\ stats' = UpdateStats(stats, result)
    /\ UNCHANGED <<max_threads, batch_size, is_scanning, sd_faults>>
    /\ UNCHANGED SdOther

\* _scan_batch returns (line 778) and scan_directory goes on, lines 621-630: the
\* results of the batch are added to the results of the run.
end_batch(r) ==
    /\ run[r].pc = "scan_batch"
    /\ run[r].submitted = Len(run[r].batch)
    /\ BatchCollected(run[r].batch, run[r].batch_results)
    /\ run' = [run EXCEPT ![r].pc = "sleep",
                          ![r].results = @ \o run[r].batch_results]
    /\ UNCHANGED <<max_threads, batch_size, stats, is_scanning, sd_faults>>
    /\ UNCHANGED SdOther

\* scan_directory, line 630: await asyncio.sleep(0.01).  A task that has been
\* cancelled gets CancelledError here, and leaves through the finally.
sleep(r) ==
    /\ run[r].pc = "sleep"
    /\ IF run[r].cancelled
       THEN /\ run' = [run EXCEPT ![r].pc = "raised"]
            /\ is_scanning' = FALSE
       ELSE /\ run' = [run EXCEPT ![r].pc = "enumerate"]
            /\ UNCHANGED is_scanning
    /\ UNCHANGED <<max_threads, batch_size, stats, sd_faults>>
    /\ UNCHANGED SdOther

\* The caller cancels the task that runs scan_directory, which the event loop
\* can do while the task is suspended at line 630: the scan has no cancellation
\* flag and no other means of cancellation.
cancel(r) ==
    /\ run[r].pc = "sleep"
    /\ ~run[r].cancelled
    /\ run' = [run EXCEPT ![r].cancelled = TRUE]
    /\ UNCHANGED <<max_threads, batch_size, stats, is_scanning, sd_faults>>
    /\ UNCHANGED SdOther

\* A mutant of new_threads: the count is not kept at 1 or more.
NewThreadsUnclamped(threads, reduction) == (threads * (100 - reduction)) \div 100

\* _handle_cpu_throttle, line 696: max(1, int(self.max_threads * (1 - reduction))),
\* with the reduction in percent.
new_threads(threads, reduction) ==
    LET reduced == (threads * (100 - reduction)) \div 100
    IN  IF reduced > 1 THEN reduced ELSE 1

\* _handle_cpu_throttle(reduction), lines 693-700, the callback of the cpu rule.
handle_cpu_throttle(reduction) ==
    /\ new_threads(max_threads, reduction) # max_threads
    /\ max_threads' = new_threads(max_threads, reduction)
    /\ UNCHANGED <<batch_size, stats, is_scanning, run, sd_faults>>
    /\ UNCHANGED SdOther

\* One step of the invocation r.
RunStep(r) ==
    \/ start_scan(r)
    \/ get_file_batch(r)
    \/ submit(r)
    \/ \E f \in EnumeratedFiles : worker_start(r, f)
    \/ \E f \in EnumeratedFiles : worker_finish(r, f)
    \/ \E f \in EnumeratedFiles : collect(r, f)
    \/ end_batch(r)
    \/ sleep(r)

\* One invocation, which its caller may cancel, while the profile is set and the
\* CPU throttle acts.
SdNextSeq ==
    \/ RunStep("r1")
    \/ cancel("r1")
    \/ handle_cpu_throttle(get_rule("cpu").reduction)
    \/ \E profile_name \in ProfileNames : set_profile(profile_name)

\* Two invocations on one engine.
SdNextConc == \E r \in Runs : RunStep(r)

(***************************************************************************)
(*               ScanEngine._get_file_batches over any tree                *)
(***************************************************************************)

\* Model bound: the number of entries of a tree.
MaxEntries == 4

\* The kinds of entry rglob('*') yields: a file should_scan_file accepts, a file
\* of a skipped extension, a file under a skipped directory, and a directory.
EntryKinds ==
    {[kind |-> "file", suffix |-> ".txt", parts |-> {}],
     [kind |-> "file", suffix |-> ".jpg", parts |-> {}],
     [kind |-> "file", suffix |-> ".txt", parts |-> {"node_modules"}],
     [kind |-> "directory", suffix |-> "", parts |-> {}]}

\* The trees: every list of at most MaxEntries entries.
Trees == UNION {[1..n -> EntryKinds] : n \in 0..MaxEntries}

\* scan_directory calls _get_file_batches(directory), line 618: the generator
\* is created, with the batch size of the engine.
BInit ==
    /\ b_tree \in Trees
    /\ b_size \in 1..MaxBatchSize
    /\ b_cursor = 1
    /\ b_batches = <<>>
    /\ b_pc = "running"

\* No generator is running.
BIdle ==
    /\ b_tree = <<>>
    /\ b_size = 1
    /\ b_cursor = 1
    /\ b_batches = <<>>
    /\ b_pc = "running"

\* The generator is resumed and runs to its next yield (line 644 or 647), or to
\* its end.
next_batch ==
    /\ b_pc = "running"
    /\ LET next == GetFileBatchOf(b_tree, b_cursor, <<>>, b_size)
       IN  IF next.batch = <<>>
           THEN /\ b_pc' = "exhausted"
                /\ UNCHANGED b_batches
                /\ b_cursor' = next.cursor
           ELSE /\ b_batches' = Append(b_batches, next.batch)
                /\ b_cursor' = next.cursor
                /\ UNCHANGED b_pc
    /\ UNCHANGED <<b_tree, b_size>>
    /\ UNCHANGED BOther

\* is_file() (line 641) raises for an entry that may not be examined, and the
\* exception ends the generator.
is_file_raises ==
    /\ b_pc = "running"
    /\ b_cursor <= Len(b_tree)
    /\ b_pc' = "raised"
    /\ UNCHANGED <<b_tree, b_size, b_cursor, b_batches>>
    /\ UNCHANGED BOther

BNext == next_batch \/ is_file_raises

(***************************************************************************)
(*                           PerformanceMonitor                            *)
(***************************************************************************)

\* Model bounds: the clock values, the I/O counters (in MiB) and the number of
\* metrics kept.
MaxClock == 3
MaxIoBytes == 4
MaxSamples == 3

\* The growth of a disk counter between two samples, in MiB.
IoSteps == {0, 2}

\* x / y of two numbers where y divides x and y is not zero (true division; the
\* values of the model are chosen so that the quotient is whole).
Quotient(x, y) == IF y > 0 THEN x \div y ELSE 0 - (x \div (0 - y))

NoTick == [elapsed |-> 0, outcome |-> "none"]

\* PerformanceMonitor.__init__, lines 27-33.
PInit ==
    /\ pm_last_io_counters = [read_bytes |-> 0, write_bytes |-> 0]
    /\ pm_last_io_time = 1
    /\ pm_history = <<>>
    /\ pm_tick = NoTick

\* No monitor samples.
PIdle ==
    /\ pm_last_io_counters = [read_bytes |-> 0, write_bytes |-> 0]
    /\ pm_last_io_time = 1
    /\ pm_history = <<>>
    /\ pm_tick = NoTick

\* One pass of _monitor_loop (lines 65-72) with _collect_metrics (lines 74-103),
\* when psutil.disk_io_counters() gives current_io and time.time() gives
\* current_time.  The divisions of lines 84-85 raise ZeroDivisionError when
\* time_delta is 0: the assignments of lines 87-88 and the append of line 68 are
\* not reached, and the loop logs the error (lines 71-72).
monitor_pass(current_io, current_time) ==
    LET time_delta == current_time - pm_last_io_time
    IN  /\ Len(pm_history) < MaxSamples
        /\ IF time_delta = 0
           THEN /\ pm_tick' = [elapsed |-> time_delta, outcome |-> "raised"]
                /\ UNCHANGED <<pm_last_io_counters, pm_last_io_time, pm_history>>
           ELSE LET read_speed ==
                        Quotient(current_io.read_bytes
                                   - pm_last_io_counters.read_bytes, time_delta)
                    write_speed ==
                        Quotient(current_io.write_bytes
                                   - pm_last_io_counters.write_bytes, time_delta)
                IN  /\ pm_last_io_counters' = current_io
                    /\ pm_last_io_time' = current_time
                    /\ pm_history' = Append(pm_history,
                                            [disk_io_read |-> read_speed,
                                             disk_io_write |-> write_speed])
                    /\ pm_tick' = [elapsed |-> time_delta, outcome |-> "appended"]
        /\ UNCHANGED POther

\* The monitor loop samples; the counters of the disk grow, and the wall clock
\* goes on, stands still or is set back.
PNext ==
    \E dr \in IoSteps, dw \in IoSteps, current_time \in 0..MaxClock :
        /\ pm_last_io_counters.read_bytes + dr <= MaxIoBytes
        /\ pm_last_io_counters.write_bytes + dw <= MaxIoBytes
        /\ current_time - pm_last_io_time \in {-1, 0, 1, 2}
        /\ monitor_pass([read_bytes |-> pm_last_io_counters.read_bytes + dr,
                         write_bytes |-> pm_last_io_counters.write_bytes + dw],
                        current_time)

(***************************************************************************)
(*                          SystemHealthMonitor                            *)
(***************************************************************************)

\* HealthThresholds, lines 13-20 (percentages and degrees as integers).
thresholds ==
    [min_disk_space |-> 1024 * 1024 * 1024,
     max_memory_usage |-> 85,
     max_cpu_temp |-> 85,
     max_cpu_usage |-> 90,
     min_disk_free |-> 10]

\* self.critical_services, lines 49-53.
critical_services == {"antivirus", "realtime_protection", "update_service"}

\* psutil.sensors_temperatures() gives nothing, or raises: cpu_temp stays None.
NoTemp == -1

\* What psutil can report: values on both sides of every threshold.
HealthReadings ==
    [disk_free : {0, thresholds.min_disk_space - 1, thresholds.min_disk_space,
                  2 * (thresholds.min_disk_space - 1)},
     memory_percent : {0, thresholds.max_memory_usage, thresholds.max_memory_usage + 1},
     cpu_usage : {thresholds.max_cpu_usage, thresholds.max_cpu_usage + 1},
     cpu_temp : {NoTemp, thresholds.max_cpu_temp, thresholds.max_cpu_temp + 1}]

\* _check_critical_services, lines 156-173: every service is reported running.
check_critical_services == [service \in critical_services |-> [running |-> TRUE]]

\* The texts of the issues, lines 102-132, up to their first colon.
IssueTexts ==
    {"Low disk space", "High memory usage", "High CPU usage",
     "High CPU temperature", "Critical service not running"}

\* i.startswith("Critical"), line 135.
StartsWithCritical(issue) == issue = "Critical service not running"

\* for service, status in services_status.items(), lines 130-132; the services
\* are taken in the order of self.critical_services.
ServiceIssues(services_status) ==
    LET Issue(service) ==
            IF services_status[service].running THEN <<>>
            ELSE <<"Critical service not running">>
    IN  Issue("antivirus") \o Issue("realtime_protection") \o Issue("update_service")

\* The issues list of _check_system_health, lines 97-132.
Issues(sample) ==
    (IF sample.disk_free < thresholds.min_disk_space
     THEN <<"Low disk space">> ELSE <<>>)
    \o (IF sample.memory_percent > thresholds.max_memory_usage
        THEN <<"High memory usage">> ELSE <<>>)
    \o (IF sample.cpu_usage > thresholds.max_cpu_usage
        THEN <<"High CPU usage">> ELSE <<>>)
    \o (IF sample.cpu_temp # NoTemp /\ sample.cpu_temp > thresholds.max_cpu_temp
        THEN <<"High CPU temperature">> ELSE <<>>)
    \o ServiceIssues(check_critical_services)

\* The overall status, lines 134-140.
OverallStatus(issues) ==
    IF \E i \in 1..Len(issues) : StartsWithCritical(issues[i]) THEN "critical"
    ELSE IF issues # <<>> THEN "warning"
    ELSE "healthy"

NoHealthStatus == [status |-> "none", issues |-> <<>>, disk_space |-> 0]

HIdle ==
    /\ h_sample = [disk_free |-> thresholds.min_disk_space,
                   memory_percent |-> thresholds.max_memory_usage,
                   cpu_usage |-> thresholds.max_cpu_usage, cpu_temp |-> NoTemp]
    /\ h_health = NoHealthStatus

HInit ==
    /\ h_sample \in HealthReadings
    /\ h_health = NoHealthStatus

\* _check_system_health(), lines 95-154.
check_system_health ==
    /\ h_health.status = "none"
    /\ h_health' = [status |-> OverallStatus(Issues(h_sample)),
                    issues |-> Issues(h_sample),
                    disk_space |-> h_sample.disk_free]
    /\ UNCHANGED h_sample
    /\ UNCHANGED HOther

HNext == check_system_health

(***************************************************************************)
(*              ScanOptimizer and the memory throttle callback             *)
(***************************************************************************)

\* ScanOptimizer.__init__, line 43.
min_batch_size == 100

\* ScanOptimizer.__init__, line 41: self.batch_size = 1000.
OIdle == optimizer_batch_size = 1000

\* _handle_memory_throttle, lines 705-708:
\* max(min_batch_size, int(batch_size * (1 - reduction))), with the reduction in
\* percent.
reduced_batch_size(size, reduction) ==
    LET reduced == (size * (100 - reduction)) \div 100
    IN  IF reduced > min_batch_size THEN reduced ELSE min_batch_size

\* _handle_memory_throttle(reduction), lines 702-709, the callback of the
\* memory rule: the batch size of the optimizer is reduced.  self.batch_size,
\* which _get_file_batches compares with (line 643), is not written.
handle_memory_throttle(reduction) ==
    /\ reduced_batch_size(optimizer_batch_size, reduction) # optimizer_batch_size
    /\ optimizer_batch_size' = reduced_batch_size(optimizer_batch_size, reduction)
    /\ UNCHANGED OOther

\* ScanEngine.__init__, line 189: self.batch_size = 1000; the settings tab
\* (gui/settings_tab.py, lines 116 and 187) sets it between 100 and 10000.
EngineBatchSizes == {100, 1000}

\* The engine as it is constructed or configured on a host with two
\* processors, before a scan.
SdInitEngine ==
    /\ max_threads = 2
    /\ batch_size \in EngineBatchSizes
    /\ stats = ZeroStats
    /\ is_scanning = FALSE
    /\ run = [r \in Runs |-> NoRun]
    /\ sd_faults = 0

\* One scan_directory invocation while the memory throttle acts.
SdNextMemory ==
    \/ RunStep("r1")
    \/ handle_memory_throttle(get_rule("memory").reduction)

(***************************************************************************)
(*              ScanEngine and the throttles of its monitors               *)
(***************************************************************************)

\* ScanEngine.__init__, lines 172-174: the callbacks registered with the
\* ResourceThrottler.
EngineCallbacks ==
    [cpu     |-> <<"_handle_cpu_throttle">>,
     memory  |-> <<"_handle_memory_throttle">>,
     disk_io |-> <<"_handle_disk_throttle">>]

\* The ResourceThrottler of an engine, lines 169-174.
TInitEngine ==
    /\ is_throttled = FALSE
    /\ throttle_start = NoTime
    /\ current_rules = <<>>
    /\ throttle_lock = "free"
    /\ t_now = 0
    /\ cpu_percent = 80
    /\ memory_percent = 85
    /\ disk_io_percent = 90
    /\ tpc = [t \in Threads |-> "idle"]
    /\ targ = [t \in Threads |-> <<>>]
    /\ tret = NoRet
    /\ throttle_callbacks = EngineCallbacks
    /\ tapplied = <<>>
    /\ tcalls = <<>>

\* ScanEngine.__init__, lines 89 and 189, on a host with four processors or
\* more; the batches are of one file.
SdInitFourThreads ==
    /\ max_threads = 4
    /\ batch_size = 1
    /\ stats = ZeroStats
    /\ is_scanning = FALSE
    /\ run = [r \in Runs |-> NoRun]
    /\ sd_faults = 0

\* max_threads after the callbacks of a list of calls have run, in order.
RECURSIVE ThreadsAfter(_, _)
ThreadsAfter(calls, threads) ==
    IF calls = <<>> THEN threads
    ELSE ThreadsAfter(Tail(calls),
                      IF Head(calls).callback = "_handle_cpu_throttle"
                      THEN new_threads(threads, Head(calls).reduction)
                      ELSE threads)

\* optimizer.batch_size after the callbacks of a list of calls have run.
RECURSIVE BatchSizeAfter(_, _)
BatchSizeAfter(calls, size) ==
    IF calls = <<>> THEN size
    ELSE BatchSizeAfter(Tail(calls),
                        IF Head(calls).callback = "_handle_memory_throttle"
                        THEN reduced_batch_size(size, Head(calls).reduction)
                        ELSE size)

\* apply_throttle(rules), lines 102-124, on the throttler of the engine: the
\* throttle is activated and the callbacks of the engine run, rule after rule:
\* _handle_cpu_throttle (lines 693-700), _handle_memory_throttle (lines
\* 702-709) and _handle_disk_throttle (lines 711-716), which only sleeps.
engine_apply_throttle(t, rules) ==
    LET calls == CallbackRun(SortByPriority(rules), throttle_callbacks)
    IN  /\ tpc[t] = "idle"
        /\ throttle_lock = "free"
        /\ is_throttled' = TRUE
        /\ throttle_start' = t_now
        /\ current_rules' = SortByPriority(rules)
        /\ tapplied' = rules
        /\ tcalls' = calls
        /\ tret' = NoRet
        /\ max_threads' = ThreadsAfter(calls, max_threads)
        /\ optimizer_batch_size' = BatchSizeAfter(calls, optimizer_batch_size)
        /\ UNCHANGED <<throttle_callbacks, throttle_lock, t_now, cpu_percent,
                       memory_percent, disk_io_percent, tpc, targ>>
        /\ UNCHANGED <<batch_size, stats, is_scanning, run, sd_faults>>
        /\ UNCHANGED EtOther

\* _handle_throttling(), lines 658-672, the callback the engine registers with
\* its SystemMonitor (line 137): the monitor loop calls it when _check_limits()
\* finds a limit exceeded, which it does during a scan only
\* (system_monitor.py, lines 122-128 and 175-176).
handle_throttling ==
    LET halved == IF max_threads \div 2 > 1 THEN max_threads \div 2 ELSE 1
    IN  /\ is_scanning
        /\ halved # max_threads
        /\ max_threads' = halved
        /\ UNCHANGED <<batch_size, stats, is_scanning, run, sd_faults>>
        /\ UNCHANGED SdOther

\* A scan run on an engine whose monitors throttle it: the throttle callbacks,
\* the activations and the releases of the throttle.
SdNextThrottled ==
    \/ RunStep("r1")
    \/ handle_throttling
    \/ \E rules \in RuleLists : engine_apply_throttle("t1", rules)
    \/ release_throttle("t1")

(***************************************************************************)
(*      SystemMonitor and SystemHealthMonitor: start and stop monitoring   *)
(***************************************************************************)

\* Model bound: the number of monitor threads created.
MaxLoops == 3

\* The threads that call start_monitoring and stop_monitoring.
Callers == {"c1", "c2"}

MonitorKinds == {"SystemMonitor", "SystemHealthMonitor"}

LoopIds == 1..MaxLoops

\* The monitor threads that have been started and have not left _monitor_loop.
AliveLoops == {n \in LoopIds : mon_loops[n] \in {"test", "pass"}}

\* SystemMonitor.__init__, lines 39-40, and SystemHealthMonitor.__init__,
\* lines 43-44.
MInit ==
    /\ mon_kind \in MonitorKinds
    /\ is_running = FALSE
    /\ monitor_thread = 0
    /\ mon_loops = [n \in LoopIds |-> "unborn"]
    /\ mon_pc = [c \in Callers |-> "idle"]
    /\ mon_joined = [c \in Callers |-> 0]

\* No monitor is used.
MIdle ==
    /\ mon_kind = "SystemMonitor"
    /\ is_running = FALSE
    /\ monitor_thread = 0
    /\ mon_loops = [n \in LoopIds |-> "unborn"]
    /\ mon_pc = [c \in Callers |-> "idle"]
    /\ mon_joined = [c \in Callers |-> 0]

\* start_monitoring, line 85 (system_health_monitor.py, line 70): the flag is
\* read, without a lock; when it is set the call returns.
start_monitoring_test(c) ==
    /\ mon_pc[c] = "idle"
    /\ \E n \in LoopIds : mon_loops[n] = "unborn"
    /\ ~is_running
    /\ mon_pc' = [mon_pc EXCEPT ![c] = "start"]
    /\ UNCHANGED <<mon_kind, is_running, monitor_thread, mon_loops, mon_joined>>
    /\ UNCHANGED MOther

\* start_monitoring, lines 86-88 (71-73): the flag is set, and a thread is
\* created for _monitor_loop and started.
start_monitoring_thread(c) ==
    /\ mon_pc[c] = "start"
    /\ \E n \in LoopIds :
          /\ mon_loops[n] = "unborn"
          /\ \A k \in LoopIds : k < n => mon_loops[k] # "unborn"
          /\ is_running' = TRUE
          /\ monitor_thread' = n
          /\ mon_loops' = [mon_loops EXCEPT ![n] = "test"]
    /\ mon_pc' = [mon_pc EXCEPT ![c] = "idle"]
    /\ UNCHANGED <<mon_kind, mon_joined>>
    /\ UNCHANGED MOther

\* stop_monitoring, lines 91-97 (76-80): the flag is cleared and the thread
\* created last is joined; SystemMonitor joins it only if it is alive, and then
\* for 5 seconds at most.
stop_monitoring(c) ==
    /\ mon_pc[c] = "idle"
    /\ is_running' = FALSE
    /\ IF /\ monitor_thread # 0
          /\ (mon_kind = "SystemMonitor" => monitor_thread \in AliveLoops)
       THEN /\ mon_pc' = [mon_pc EXCEPT ![c] = "join"]
            /\ mon_joined' = [mon_joined EXCEPT ![c] = monitor_thread]
       ELSE UNCHANGED <<mon_pc, mon_joined>>
    /\ UNCHANGED <<mon_kind, monitor_thread, mon_loops>>
    /\ UNCHANGED MOther

\* join returns: the thread has left _monitor_loop.
join_returns(c) ==
    /\ mon_pc[c] = "join"
    /\ mon_joined[c] \notin AliveLoops
    /\ mon_pc' = [mon_pc EXCEPT ![c] = "idle"]
    /\ mon_joined' = [mon_joined EXCEPT ![c] = 0]
    /\ UNCHANGED <<mon_kind, is_running, monitor_thread, mon_loops>>
    /\ UNCHANGED MOther

\* SystemMonitor.stop_monitoring, lines 95-97: join(timeout=5) returns with
\* the thread still alive (it sleeps 1 s per pass, 5 s after an error, and a
\* pass can take longer), and a warning is logged.
join_times_out(c) ==
    /\ mon_kind = "SystemMonitor"
    /\ mon_pc[c] = "join"
    /\ mon_joined[c] \in AliveLoops
    /\ mon_pc' = [mon_pc EXCEPT ![c] = "idle"]
    /\ mon_joined' = [mon_joined EXCEPT ![c] = 0]
    /\ UNCHANGED <<mon_kind, is_running, monitor_thread, mon_loops>>
    /\ UNCHANGED MOther

\* _monitor_loop, line 102 (85): while self.is_running.
monitor_loop_test(n) ==
    /\ mon_loops[n] = "test"
    /\ mon_loops' = [mon_loops EXCEPT ![n] = IF is_running THEN "pass" ELSE "exited"]
    /\ UNCHANGED <<mon_kind, is_running, monitor_thread, mon_pc, mon_joined>>
    /\ UNCHANGED MOther

\* _monitor_loop, lines 103-135 (86-93): one pass of the loop and its sleep.
monitor_loop_pass(n) ==
    /\ mon_loops[n] = "pass"
    /\ mon_loops' = [mon_loops EXCEPT ![n] = "test"]
    /\ UNCHANGED <<mon_kind, is_running, monitor_thread, mon_pc, mon_joined>>
    /\ UNCHANGED MOther

MNext ==
    \/ \E c \in Callers : start_monitoring_test(c)
    \/ \E c \in Callers : start_monitoring_thread(c)
    \/ \E c \in Callers : stop_monitoring(c)
    \/ \E c \in Callers : join_returns(c)
    \/ \E c \in Callers : join_times_out(c)
    \/ \E n \in LoopIds : monitor_loop_test(n)
    \/ \E n \in LoopIds : monitor_loop_pass(n)

(***************************************************************************)
(*                        ScanOptimizer.create_batch                       *)
(***************************************************************************)

\* Model bound: the length of the list of files.
MaxFiles == 4

\* create_batch, line 83: 50 MiB per batch; the sizes are in MiB.
MaxBatchBytes == 50

\* file.stat() raises OSError: the file has vanished or may not be examined.
NoSize == -1

\* The sizes of the files: small ones, one that fills a batch with another,
\* one larger than a batch, and one that cannot be read.
FileSizes == {20, 30, 60, NoSize}

\* create_batch(files), lines 74-97, from the file at position i on: batches
\* holds the batches closed so far, current_batch the positions of the files of
\* the open batch and current_size their total size.
RECURSIVE CreateBatch(_, _, _, _, _)
CreateBatch(sizes, i, batches, current_batch, current_size) ==
    IF i > Len(sizes)
    THEN IF current_batch # <<>> THEN Append(batches, current_batch) ELSE batches
    ELSE IF sizes[i] = NoSize
    THEN CreateBatch(sizes, i + 1, batches, current_batch, current_size)
    ELSE IF current_size + sizes[i] > MaxBatchBytes
    THEN CreateBatch(sizes, i + 1,
                     IF current_batch # <<>>
                     THEN Append(batches, current_batch) ELSE batches,
                     <<i>>, sizes[i])
    ELSE CreateBatch(sizes, i + 1, batches, Append(current_batch, i),
                     current_size + sizes[i])

\* The batches of a list, one after the other.
RECURSIVE Concatenation(_)
Concatenation(batches) ==
    IF batches = <<>> THEN <<>>
    ELSE Head(batches) \o Concatenation(Tail(batches))

\* The lists of files create_batch is called with.
CInit ==
    /\ cb_files \in UNION {[1..n -> FileSizes] : n \in 0..MaxFiles}
    /\ cb_batches = <<>>
    /\ cb_done = FALSE

\* create_batch is not called.
CIdle ==
    /\ cb_files = <<>>
    /\ cb_batches = <<>>
    /\ cb_done = FALSE

\* One call of create_batch(files).
create_batch ==
    /\ ~cb_done
    /\ cb_batches' = CreateBatch(cb_files, 1, <<>>, <<>>, 0)
    /\ cb_done' = TRUE
    /\ UNCHANGED cb_files
    /\ UNCHANGED COther

CNext == create_batch

(***************************************************************************)
(*                          The specifications                             *)
(***************************************************************************)

vars == <<tvars, qvars, ivars, selvars, sfvars, sdvars, gsvars, hvars, eqvars, ovars, bvars, pvars, mvars, cvars>>

\* A component that takes no step stays in one of its initial states.
TIdle == TInit /\ cpu_percent = 80 /\ memory_percent = 85 /\ disk_io_percent = 90
QIdle == QInit /\ files = [p \in Paths |-> "c1"]

\* The throttler, used by two threads.
InitThrottle == TInit /\ QIdle /\ IInit /\ SelIdle /\ SfIdle /\ SdIdle /\ GsIdle /\ HIdle /\ EqIdle /\ OIdle /\ BIdle /\ PIdle /\ MIdle /\ CIdle
SpecThrottle == InitThrottle /\ [][TNext]_vars

\* The throttler and its callbacks.
SpecCallbacks == InitThrottle /\ [][TNextCallbacks]_vars

\* get_status called by one thread while another activates and releases the
\* throttle.
InitStatus == TIdle /\ GsIdle /\ QIdle /\ IInit /\ SelIdle /\ SfIdle /\ SdIdle /\ HIdle /\ EqIdle /\ OIdle /\ BIdle /\ PIdle /\ MIdle /\ CIdle
SpecStatus == InitStatus /\ [][GsNext]_vars

\* _check_system_health on every sample.
InitHealth == HInit /\ TIdle /\ GsIdle /\ QIdle /\ IInit /\ SelIdle /\ SfIdle /\ SdIdle /\ EqIdle /\ OIdle /\ BIdle /\ PIdle /\ MIdle /\ CIdle
SpecHealth == InitHealth /\ [][HNext]_vars

\* The quarantine store, its calls made one after the other.
InitQuarantine == QInit /\ TIdle /\ IInit /\ SelIdle /\ SfIdle /\ SdIdle /\ GsIdle /\ HIdle /\ EqIdle /\ OIdle /\ BIdle /\ PIdle /\ MIdle /\ CIdle
SpecQuarantineSeq == InitQuarantine /\ [][QNextSeq]_vars

\* The quarantine store, quarantine_file called by two threads.
SpecQuarantine == InitQuarantine /\ [][QNextConc]_vars

\* The engine's own quarantine_file and restore_file, called one after the other.
InitEngineQuarantine == EqInit /\ QIdle /\ TIdle /\ GsIdle /\ HIdle /\ IInit /\ SelIdle /\ SfIdle /\ SdIdle /\ OIdle /\ BIdle /\ PIdle /\ MIdle /\ CIdle
SpecEngineQuarantine == InitEngineQuarantine /\ [][EqNext]_vars

\* The scan intensity selector.
InitIntensity == IInit /\ SelIdle /\ TIdle /\ QIdle /\ SfIdle /\ SdIdle /\ GsIdle /\ HIdle /\ EqIdle /\ OIdle /\ BIdle /\ PIdle /\ MIdle /\ CIdle
SpecIntensity == InitIntensity /\ [][INext]_vars

\* _select_profile on every health reading.
InitSelect == sel_health \in AllHealth /\ sel_profile = "none" /\ IInit /\ TIdle /\ QIdle /\ SfIdle /\ SdIdle /\ GsIdle /\ HIdle /\ EqIdle /\ OIdle /\ BIdle /\ PIdle /\ MIdle /\ CIdle
SpecSelect == InitSelect /\ [][SelNext]_vars

\* One scan_directory run, with the intensity profile and the CPU throttle
\* callback acting on the engine while it runs.
InitScanRun == SdInit /\ IInit /\ SelIdle /\ TIdle /\ QIdle /\ SfIdle /\ GsIdle /\ HIdle /\ EqIdle /\ OIdle /\ BIdle /\ PIdle /\ MIdle /\ CIdle
SpecScanRun == InitScanRun /\ [][SdNextSeq]_vars

\* Two scan_directory invocations on one engine.
SpecScanRuns == InitScanRun /\ [][SdNextConc]_vars

\* One scan_directory run on the engine as configured, with the memory
\* throttle callback acting while it runs.
InitMemoryThrottle == SdInitEngine /\ OIdle /\ IInit /\ SelIdle /\ TIdle /\ GsIdle /\ HIdle /\ QIdle /\ EqIdle /\ SfIdle /\ BIdle /\ PIdle /\ MIdle /\ CIdle
SpecMemoryThrottle == InitMemoryThrottle /\ [][SdNextMemory]_vars

\* scan_file on every file.
InitScanFile == SfInit /\ IInit /\ SelIdle /\ TIdle /\ QIdle /\ SdIdle /\ GsIdle /\ HIdle /\ EqIdle /\ OIdle /\ BIdle /\ PIdle /\ MIdle /\ CIdle
SpecScanFile == InitScanFile /\ [][SfNext]_vars

\* create_batch on every list of files.
InitCreateBatch == CInit /\ TIdle /\ QIdle /\ IInit /\ SelIdle /\ SfIdle /\ SdIdle /\ GsIdle /\ HIdle /\ EqIdle /\ OIdle /\ BIdle /\ PIdle /\ MIdle
SpecCreateBatch == InitCreateBatch /\ [][CNext]_vars

\* A monitor, started and stopped by two threads.
InitMonitor == MInit /\ TIdle /\ QIdle /\ IInit /\ SelIdle /\ SfIdle /\ SdIdle /\ GsIdle /\ HIdle /\ EqIdle /\ OIdle /\ BIdle /\ PIdle /\ CIdle
SpecMonitor == InitMonitor /\ [][MNext]_vars

\* A scan run on an engine with its throttler and its system monitor.
InitEngineThrottle == SdInitFourThreads /\ TInitEngine /\ OIdle /\ QIdle /\ IInit /\ SelIdle /\ SfIdle /\ GsIdle /\ HIdle /\ EqIdle /\ BIdle /\ PIdle /\ MIdle /\ CIdle
SpecEngineThrottle == InitEngineThrottle /\ [][SdNextThrottled]_vars

\* The performance monitor alone.
InitPerformance == PInit /\ TIdle /\ QIdle /\ IInit /\ SelIdle /\ SfIdle /\ SdIdle /\ GsIdle /\ HIdle /\ EqIdle /\ OIdle /\ BIdle /\ MIdle /\ CIdle
SpecPerformance == InitPerformance /\ [][PNext]_vars

\* _get_file_batches alone, over every tree.
InitBatches == BInit /\ TIdle /\ QIdle /\ IInit /\ SelIdle /\ SfIdle /\ SdIdle /\ GsIdle /\ HIdle /\ EqIdle /\ OIdle /\ PIdle /\ MIdle /\ CIdle
SpecBatches == InitBatches /\ [][BNext]_vars

(***************************************************************************)
(*                    The claims about the quarantine store                *)
(***************************************************************************)

\* C2: two concurrent quarantine_file calls on two different files end with a
\* metadata mapping that holds both entries, in every interleaving of their
\* steps (no I/O error is needed for the case).
C2_BothEntriesKept ==
    (/\ q_faults = 0
     /\ \A t \in Threads :
           qpc[t] = "idle" /\ qres[t].op = "quarantine" /\ qres[t].ok = "True"
     /\ qres["t1"].path # qres["t2"].path)
    => {qres["t1"].name, qres["t2"].name} \subseteq DOMAIN metadata

\* C3: whenever no call is in progress, the keys of the metadata mapping are
\* the blobs present in the quarantine directory, also after calls that failed.
C3_EntriesAreBlobs ==
    qpc["t1"] = "idle" => DOMAIN metadata = DOMAIN blobs

\* C4: when quarantine_file returns False for a file that existed, the file
\* still has its content and no blob and no metadata entry have been added.
C4_QuarantineAllOrNothing ==
    (/\ qpc["t1"] = "idle"
     /\ qres["t1"].op = "quarantine"
     /\ qres["t1"].ok = "False"
     /\ qpre["t1"].files[qres["t1"].path] # "absent")
    => (/\ files[qres["t1"].path] = qpre["t1"].files[qres["t1"].path]
        /\ DOMAIN blobs \subseteq DOMAIN qpre["t1"].blobs
        /\ DOMAIN metadata \subseteq DOMAIN qpre["t1"].metadata)

\* C5: a successful quarantine_file followed by a successful restore_file of
\* that entry leaves at the original path the content that was quarantined,
\* and its hash is the file_hash recorded in the entry.
C5_RoundTripLossless ==
    (/\ qpc["t1"] = "idle"
     /\ qres["t1"].op = "restore"
     /\ qres["t1"].ok = "True"
     /\ roundtrip.name = qres["t1"].name)
    => (/\ qres["t1"].entry.original_path = roundtrip.path
        /\ files[roundtrip.path] = roundtrip.content
        /\ Hash(files[roundtrip.path]) = qres["t1"].entry.file_hash)

\* C5's case: a file has been quarantined and restored, and is back.
C5_Witness ==
    /\ qpc["t1"] = "idle"
    /\ qres["t1"].op = "restore"
    /\ qres["t1"].ok = "True"
    /\ roundtrip.name = qres["t1"].name
    /\ roundtrip.content \in Contents
    /\ files[roundtrip.path] = roundtrip.content
    /\ qpre["t1"].files[roundtrip.path] = "absent"

\* C6: delete_quarantined_file on an entry whose blob exists: after True the
\* blob and the entry are gone; after False the blob, unmodified, and the entry
\* are both still there.
C6_DeleteAllOrNothing ==
    (/\ qpc["t1"] = "idle"
     /\ qres["t1"].op = "delete"
     /\ qres["t1"].name \in DOMAIN qpre["t1"].metadata
     /\ qres["t1"].name \in DOMAIN qpre["t1"].blobs)
    => IF qres["t1"].ok = "True"
       THEN /\ qres["t1"].name \notin DOMAIN blobs
            /\ qres["t1"].name \notin DOMAIN metadata
       ELSE /\ qres["t1"].name \in DOMAIN blobs
            /\ blobs[qres["t1"].name] = qpre["t1"].blobs[qres["t1"].name]
            /\ qres["t1"].name \in DOMAIN metadata

(***************************************************************************)
(*                 The claims about the scan intensity selector            *)
(***************************************************************************)

\* C7: an adjust_intensity call made less than adjustment_cooldown after
\* last_adjustment returns None and leaves current_profile and last_adjustment
\* as they were, for every health reading; and when adjust_intensity changes
\* the profile, its previous change is at least adjustment_cooldown in the past.
C7_CooldownNoOp ==
    [][\A health \in HealthSamples \cup {NoHealth} :
          adjust_intensity(health) =>
             /\ (i_now - last_adjustment < adjustment_cooldown)
                   => /\ iret' = "None"
                      /\ UNCHANGED <<current_profile, last_adjustment>>
             /\ (current_profile' # current_profile /\ last_change # NoTime)
                   => i_now - last_change >= adjustment_cooldown]_ivars

\* C7, its case: after an earlier change, a call inside the cooldown window whose
\* reading asks for another profile has returned None.
C7_Witness ==
    /\ iret = "None"
    /\ last_change # NoTime
    /\ i_now - last_adjustment < adjustment_cooldown
    /\ ihealth # NoHealth
    /\ ihealth.status = "critical"
    /\ current_profile = "aggressive"

\* C8: the profile selected is the one of the first-match-wins table: critical
\* status gives minimal; else memory > 90 minimal, memory > 75 conservative,
\* cpu > 85 minimal, cpu > 70 conservative, disk > 95 minimal, disk > 85
\* conservative; else healthy with memory < 50, cpu < 40 and disk < 70 gives
\* aggressive; otherwise balanced.
C8_FirstMatchTable ==
    sel_profile # "none" =>
        LET h == sel_health
            r1 == h.status = "critical"
            r2 == h.memory_usage > 90
            r3 == h.memory_usage > 75
            r4 == h.cpu_usage > 85
            r5 == h.cpu_usage > 70
            r6 == h.disk_usage > 95
            r7 == h.disk_usage > 85
            r8 == /\ h.status = "healthy" /\ h.memory_usage < 50
                  /\ h.cpu_usage < 40 /\ h.disk_usage < 70
        IN  /\ r1 => sel_profile = "minimal"
            /\ (~r1 /\ r2) => sel_profile = "minimal"
            /\ (~r1 /\ ~r2 /\ r3) => sel_profile = "conservative"
            /\ (~r1 /\ ~r2 /\ ~r3 /\ r4) => sel_profile = "minimal"
            /\ (~r1 /\ ~r2 /\ ~r3 /\ ~r4 /\ r5) => sel_profile = "conservative"
            /\ (~r1 /\ ~r2 /\ ~r3 /\ ~r4 /\ ~r5 /\ r6) => sel_profile = "minimal"
            /\ (~r1 /\ ~r2 /\ ~r3 /\ ~r4 /\ ~r5 /\ ~r6 /\ r7)
                  => sel_profile = "conservative"
            /\ (~r1 /\ ~r2 /\ ~r3 /\ ~r4 /\ ~r5 /\ ~r6 /\ ~r7 /\ r8)
                  => sel_profile = "aggressive"
            /\ (~r1 /\ ~r2 /\ ~r3 /\ ~r4 /\ ~r5 /\ ~r6 /\ ~r7 /\ ~r8)
                  => sel_profile = "balanced"

\* C8, its case: a critical status with every raw value under its own threshold
\* has given minimal.
C8_Witness ==
    /\ sel_profile = "minimal"
    /\ sel_health.status = "critical"
    /\ sel_health.memory_usage = 49
    /\ sel_health.cpu_usage = 39
    /\ sel_health.disk_usage = 69

(***************************************************************************)
(*                        The claims about scan_file                       *)
(***************************************************************************)

\* C9: for an existing regular file of more than 100 MiB, scan_file returns
\* status skipped and has not opened the file for its bytes: no hash, no
\* pattern or rule finding.
C9_LargeFileSkipped ==
    (/\ sf_result # NoResult
     /\ sf_file.kind = "file"
     /\ FileContents[sf_file.content].size > 100 * 1024 * 1024)
    => /\ sf_result.status = "skipped"
       /\ sf_result.reads = 0
       /\ sf_result.hash = NoHash
       /\ sf_result.threats = <<>>

\* C9, its case: a file one byte over the cutoff, with a suspicious extension
\* and a content the patterns and rules match, has been skipped.
C9_Witness ==
    /\ sf_result.status = "skipped"
    /\ sf_file.kind = "file"
    /\ sf_file.content = "large"
    /\ sf_file.suffix = ".exe"
    /\ yara_compiler = "compiled"

\* C10: for a regular file of at most 100 MiB that can be read and whose
\* SHA-256 is a known-bad hash, scan_file returns status infected with a
\* known_malware finding of severity 10, whatever the extension, the YARA
\* compiler and the outcome of the content analysis.
C10_KnownHashInfected ==
    (/\ sf_result # NoResult
     /\ sf_file.kind = "file"
     /\ FileContents[sf_file.content].size <= 100 * 1024 * 1024
     /\ ~sf_file.hash_error
     /\ sha256(sf_file.content) \in hashes)
    => /\ sf_result.status = "infected"
       /\ \E i \in 1..Len(sf_result.threats) :
             sf_result.threats[i] = Threat("known_malware", 10)

\* C10, its case: a file with a known-bad hash and a harmless extension, whose
\* content analysis failed, has been reported with that single finding.
C10_Witness ==
    /\ sf_result.status = "infected"
    /\ sf_file.suffix = ".txt"
    /\ sf_file.content_error
    /\ sf_result.hash \in hashes
    /\ sf_result.threats = <<Threat("known_malware", 10)>>

\* C11: for a file that scan_file inspects (existing, regular, not over the
\* size cutoff, read without error) the status is infected exactly when the
\* threat list is not empty, and clean otherwise.
C11_InfectedIffThreats ==
    (/\ sf_result # NoResult
     /\ sf_file.kind = "file"
     /\ FileContents[sf_file.content].size <= 100 * 1024 * 1024
     /\ ~sf_file.hash_error)
    => /\ sf_result.status \in {"infected", "clean"}
       /\ sf_result.status = "infected" <=> Len(sf_result.threats) > 0
       /\ sf_result.status = "clean" <=> Len(sf_result.threats) = 0

\* C11, its case: a file whose only finding is a suspicious extension, of
\* severity 3, has been reported infected.
C11_Witness ==
    /\ sf_result.status = "infected"
    /\ sf_file.content = "plain"
    /\ sf_result.threats = <<Threat("suspicious_extension", 3)>>

(***************************************************************************)
(*                     The claims about the throttler                      *)
(***************************************************************************)

\* C18: a check_resources call made once the longest cooldown of the active
\* rules has elapsed clears the throttle and evaluates the triggers again: it
\* returns False with the throttle cleared if no threshold is exceeded, and
\* otherwise returns True with the throttle active again from that moment.
C18_ReleaseRechecks ==
    [][\A t \in Threads :
          (/\ check_resources(t)
           /\ is_throttled
           /\ throttle_start # NoTime
           /\ t_now - throttle_start >= MaxCooldown(current_rules))
          => LET triggered_rules ==
                     TriggeredRules(cpu_percent, memory_percent, disk_io_percent)
             IN  IF triggered_rules = <<>>
                 THEN /\ tret'[t] = "False"
                      /\ ~is_throttled'
                      /\ throttle_start' = NoTime
                 ELSE /\ tret'[t] = "True"
                      /\ is_throttled'
                      /\ throttle_start' = t_now]_tvars

\* C19: apply_throttle with the rules R calls exactly the callbacks registered
\* for the resources of R, each once and with the reduction of its resource's
\* rule, the resources in descending rule priority and the callbacks of one
\* resource in their order of registration.
C19_CallbacksByPriority ==
    tapplied # <<>> =>
        LET R == {tapplied[i] : i \in 1..Len(tapplied)}
        IN  /\ \A i \in 1..Len(tcalls) :
                  /\ tcalls[i].resource \in R
                  /\ tcalls[i].reduction = get_rule(tcalls[i].resource).reduction
            /\ \A r \in R : \A k \in 1..Len(throttle_callbacks[r]) :
                  Cardinality({i \in 1..Len(tcalls) :
                                  /\ tcalls[i].resource = r
                                  /\ tcalls[i].pos = k
                                  /\ tcalls[i].callback = throttle_callbacks[r][k]}) = 1
            /\ Len(tcalls) = CountCallbacks(throttle_callbacks, R)
            /\ \A i, j \in 1..Len(tcalls) :
                  i < j =>
                     \/ get_rule(tcalls[i].resource).priority
                           > get_rule(tcalls[j].resource).priority
                     \/ /\ tcalls[i].resource = tcalls[j].resource
                        /\ tcalls[i].pos < tcalls[j].pos

\* C19, its case: with a callback on each of the three default rules, memory's
\* callback (reduction 40) has run before cpu's (50) and cpu's before
\* disk_io's (60).
C19_Witness ==
    /\ tapplied = <<"cpu", "memory", "disk_io">>
    /\ Len(tcalls) = 3
    /\ tcalls[1].resource = "memory" /\ tcalls[1].reduction = 40
    /\ tcalls[2].resource = "cpu" /\ tcalls[2].reduction = 50
    /\ tcalls[3].resource = "disk_io" /\ tcalls[3].reduction = 60

\* C20: when a callback raises during apply_throttle, every registered callback
\* of every resource of the rules is still called, and the throttle is set:
\* is_throttled, throttle_start and the rules in current_rules.
C20_CallbackIsolation ==
    tapplied # <<>> =>
        /\ \A n \in 1..Len(tapplied) : \A k \in 1..Len(throttle_callbacks[tapplied[n]]) :
              \E i \in 1..Len(tcalls) :
                 /\ tcalls[i].resource = tapplied[n]
                 /\ tcalls[i].pos = k
        /\ is_throttled
        /\ throttle_start = t_now
        /\ {current_rules[i] : i \in 1..Len(current_rules)}
              = {tapplied[i] : i \in 1..Len(tapplied)}

\* C20, its case: the first callback called has raised, and a callback of the
\* same resource and one of another resource have been called after it.
C20_Witness ==
    /\ tapplied # <<>>
    /\ Len(tcalls) = 3
    /\ tcalls[1].raised
    /\ tcalls[2].resource = tcalls[1].resource /\ ~tcalls[2].raised
    /\ tcalls[3].resource # tcalls[1].resource /\ ~tcalls[3].raised
    /\ is_throttled

(***************************************************************************)
(*                     The claims about scan_directory                     *)
(***************************************************************************)

\* C12: a scan_directory run that returns has exactly one result for each file
\* it enumerated, none lost or duplicated across the batches, and
\* stats.files_scanned is the number of those files.
C12_OneResultPerFile ==
    run["r1"].pc = "returned" =>
        /\ ResultFiles(run["r1"].results) = EnumeratedFiles
        /\ Len(run["r1"].results) = Cardinality(EnumeratedFiles)
        /\ stats.files_scanned = Cardinality(EnumeratedFiles)

\* C12, its case: with batches of two, the run over the tree has returned the
\* file of known-bad hash as infected (severity 10), the file that has only a
\* suspicious extension as infected (severity 3) and the plain file as clean.
C12_Witness ==
    /\ run["r1"].pc = "returned"
    /\ batch_size = 2
    /\ sd_faults = 0
    /\ Len(run["r1"].results) > batch_size
    /\ \E i, j, k \in 1..Len(run["r1"].results) :
          /\ Tree[run["r1"].results[i].file].name = "a.txt"
          /\ run["r1"].results[i].status = "infected"
          /\ run["r1"].results[i].threats = <<Threat("known_malware", 10)>>
          /\ Tree[run["r1"].results[j].file].name = "sub/b.exe"
          /\ run["r1"].results[j].status = "infected"
          /\ run["r1"].results[j].threats = <<Threat("suspicious_extension", 3)>>
          /\ Tree[run["r1"].results[k].file].name = "sub/c.txt"
          /\ run["r1"].results[k].status = "clean"

\* C13: at most one scan_directory run is in progress on an engine at any time.
C13_OneRunAtATime ==
    Cardinality({r \in Runs : InProgress(r)}) <= 1

\* C14: a file is submitted to a worker only when every file of the batches
\* before its own has its result in the results of the run: a submitted file
\* without a collected result belongs to the batch in flight.
C14_BatchBarrier ==
    \A f \in run["r1"].dispatched :
        \/ f \in ResultFiles(run["r1"].results)
        \/ /\ run["r1"].pc = "scan_batch"
           /\ f \in Range(run["r1"].batch)
           /\ \A g \in run["r1"].dispatched \ Range(run["r1"].batch) :
                 g \in ResultFiles(run["r1"].results)

\* C14, its case: two files of a second batch are with the workers, and the
\* results of the first batch are in the results of the run.
C14_Witness ==
    /\ run["r1"].pc = "scan_batch"
    /\ Cardinality(run["r1"].running) = 2
    /\ Len(run["r1"].results) = 2
    /\ run["r1"].running \cap ResultFiles(run["r1"].results) = {}

\* C15: the worker pool of a batch has as many workers as the thread_count of
\* the intensity manager's current profile.
C15_PoolSizeIsProfile ==
    run["r1"].pc = "scan_batch" =>
        run["r1"].pool_size = thread_count[current_profile]

\* C16: a run that has been cancelled dispatches no further batch and returns
\* the results collected so far.
C16_CancelReturnsPartial ==
    \A r \in Runs :
        (run[r].cancelled /\ run[r].pc \in {"returned", "raised"})
        => run[r].pc = "returned"

\* C17: a run that is not cancelled never ends by raising, whatever I/O error
\* occurs: it returns a result for every file it enumerated.
C17_NeverAborted ==
    \A r \in Runs :
        (~run[r].cancelled /\ run[r].pc \in {"returned", "raised"})
        => /\ run[r].pc = "returned"
           /\ ResultFiles(run[r].results) = EnumeratedFiles

\* C21: get_status never shows the throttle state half-updated, whatever the
\* interleaving with apply_throttle and release_throttle in another thread: a
\* status with is_throttled = true has a throttle_start that is not None and
\* the rules of that same activation as its active rules; a status with
\* is_throttled = false has no active rules; and the call returns a status.
C21_StatusNeverHalfUpdated ==
    /\ gs_status.result # "raised"
    /\ gs_status.result = "returned" =>
          IF gs_status.is_throttled
          THEN /\ gs_status.throttle_start # NoTime
               /\ Range(gs_status.active_rules) = Range(gs_activation)
          ELSE gs_status.active_rules = <<>>

(***************************************************************************)
(*                    The claims about the health monitor                  *)
(***************************************************************************)

\* C22: every health check classifies its sample: critical if and only if an
\* issue of critical severity was raised, warning if and only if there are
\* issues and none is critical, healthy if and only if there is no issue; and
\* a sample with less than 1 GiB of free disk space is classified critical.
C22_HealthClassification ==
    h_health.status # "none" =>
        LET issues == h_health.issues
            critical == \E i \in 1..Len(issues) : StartsWithCritical(issues[i])
        IN  /\ h_health.status = "critical" <=> critical
            /\ h_health.status = "warning" <=> (issues # <<>> /\ ~critical)
            /\ h_health.status = "healthy" <=> issues = <<>>
            /\ h_health.disk_space < thresholds.min_disk_space
                  => h_health.status = "critical"

(***************************************************************************)
(*          The claims about quarantine, restore and the metadata          *)
(***************************************************************************)

\* C23: after a successful restore_file of an entry made by quarantine_file,
\* the file at the original path has the permission bits the original file
\* had when it was quarantined.
C23_PermissionsRestored ==
    (/\ qpc["t1"] = "idle"
     /\ qres["t1"].op = "restore"
     /\ qres["t1"].ok = "True"
     /\ roundtrip.name = qres["t1"].name)
    => modes[roundtrip.path] = roundtrip.mode

\* C24: quarantine_file destroys the original only after the encrypted blob
\* has been written and the metadata entry saved: in every state during and
\* after a quarantine_file call on a file that existed, either the original
\* still has its content, or the blob that decrypts to that content and the
\* entry that names the original path are both in the store.
C24_OriginalOrBlobAndEntry ==
    LET call == IF qpc["t1"] = "idle" THEN qres["t1"] ELSE qloc["t1"]
        content == qpre["t1"].files[call.path]
    IN  (call.op = "quarantine" /\ content \in Contents)
        => \/ files[call.path] = content
           \/ /\ call.name \in DOMAIN blobs
              /\ CanDecrypt(encryption_key, blobs[call.name])
              /\ Decrypt(encryption_key, blobs[call.name]) = content
              /\ call.name \in DOMAIN metadata
              /\ metadata[call.name].original_path = call.path

\* C24's case: a quarantine_file call has overwritten or unlinked the original,
\* and the blob and the entry are there.
C24_Witness ==
    /\ qpc["t1"] = "idle"
    /\ qres["t1"].op = "quarantine"
    /\ qpre["t1"].files[qres["t1"].path] \in Contents
    /\ files[qres["t1"].path] \in {"absent", "random"}
    /\ qres["t1"].name \in DOMAIN blobs
    /\ qres["t1"].name \in DOMAIN metadata

\* C25: the encryption key stays in memory: after any sequence of quarantine
\* and restore operations no entry of the persisted metadata mapping holds the
\* key, in any encoding that gives it back.
C25_KeyOnlyInMemory ==
    \A name \in DOMAIN eq_metadata :
        b64decode(eq_metadata[name].encryption_key) # quarantine_key

\* C26: a metadata.json that cannot be read or parsed when quarantine_file
\* runs makes the call return False, with the original file as it was and
\* every entry and blob that existed before the call still there, unchanged.
C26_CorruptMetadataSurfaced ==
    (/\ qpc["t1"] = "idle"
     /\ qres["t1"].op = "quarantine"
     /\ qres["t1"].load_error)
    => (/\ qres["t1"].ok = "False"
        /\ files[qres["t1"].path] = qpre["t1"].files[qres["t1"].path]
        /\ \A name \in DOMAIN qpre["t1"].metadata :
              /\ name \in DOMAIN metadata
              /\ metadata[name] = qpre["t1"].metadata[name]
        /\ \A name \in DOMAIN qpre["t1"].blobs :
              /\ name \in DOMAIN blobs
              /\ blobs[name] = qpre["t1"].blobs[name])

\* C27: restore_file on a name that has a metadata entry: when it returns
\* False the entry is still in the metadata; it returns True only when the
\* decrypted content is at the original path, the blob is gone and the entry
\* is removed.
C27_FailedRestoreKeepsEntry ==
    (/\ qpc["t1"] = "idle"
     /\ qres["t1"].op = "restore"
     /\ qres["t1"].name \in DOMAIN qpre["t1"].metadata)
    => IF qres["t1"].ok = "False"
       THEN /\ qres["t1"].name \in DOMAIN metadata
            /\ metadata[qres["t1"].name] = qpre["t1"].metadata[qres["t1"].name]
       ELSE LET entry == qpre["t1"].metadata[qres["t1"].name]
            IN  /\ files[entry.original_path] =
                      Decrypt(encryption_key, qpre["t1"].blobs[qres["t1"].name])
                /\ qres["t1"].name \notin DOMAIN blobs
                /\ qres["t1"].name \notin DOMAIN metadata

\* C28: every quarantine action gets a name of its own, also for two files
\* with the same base name quarantined within the same second: a successful
\* quarantine_file creates one new blob and one new entry, and never writes
\* over the blob or the entry of another action.
C28_NamesAreUnique ==
    (eq_ret.op = "quarantine" /\ eq_ret.ok = "True")
    => (/\ ~eq_ret.overwrote
        /\ eq_ret.name \in DOMAIN eq_blobs
        /\ eq_ret.name \in DOMAIN eq_metadata
        /\ eq_metadata[eq_ret.name].original_path = eq_ret.path)

(***************************************************************************)
(*                 The claims about the throttle callbacks                 *)
(***************************************************************************)

C30_MemoryThrottleShrinksBatches ==
    [][optimizer_batch_size' # optimizer_batch_size =>
          LET percent == 100 - get_rule("memory").reduction
              reduced == (batch_size * percent) \div 100
          IN  batch_size' = IF reduced > min_batch_size THEN reduced
                            ELSE min_batch_size]_vars

(***************************************************************************)
(*                  The claims about the counters of a run                 *)
(***************************************************************************)

\* C31: within a scan_directory run stats.bytes_scanned never decreases, and
\* when the run completes it equals the sum of the sizes of the files whose
\* content scan_file has read during the run.  (No step of a run writes the
\* counter, so it does not decrease; the formula states its value at the end.)
C31_BytesScannedIsSum ==
    run["r1"].pc = "returned" =>
        stats.bytes_scanned = BytesRead(run["r1"].results)

(***************************************************************************)
(*                    The claims about the file batches                    *)
(***************************************************************************)

\* The positions of b_tree that are in the batch yielded i-th.
BatchFiles(i) == {b_batches[i][j] : j \in 1..Len(b_batches[i])}

C33_TimestampOnlyOnChange ==
    [][/\ \A health \in HealthSamples :
             (/\ adjust_intensity(health)
              /\ ~InAdjustCooldown(i_now, last_adjustment)
              /\ select_profile(health) = current_profile)
                => /\ iret' = "None"
                   /\ UNCHANGED last_adjustment
       /\ last_adjustment' # last_adjustment
             => current_profile' # current_profile]_ivars

\* C33, as it holds: the first part as stated; and last_adjustment changes only
\* in an adjust_intensity step that changes current_profile, or in a
\* set_profile step with the name of a profile, which stamps the time also when
\* the profile named is the current one.
C33_TimestampFrame ==
    [][/\ \A health \in HealthSamples \cup {NoHealth} :
             adjust_intensity(health) =>
                /\ (/\ ~InAdjustCooldown(i_now, last_adjustment)
                    /\ health # NoHealth
                    /\ select_profile(health) = current_profile)
                      => /\ iret' = "None"
                         /\ UNCHANGED last_adjustment
                /\ last_adjustment' # last_adjustment
                      => current_profile' # current_profile
       /\ last_adjustment' # last_adjustment
             => \/ current_profile' # current_profile
                \/ /\ current_profile' \in ProfileNames
                   /\ last_adjustment' = i_now
                   /\ iret' = "none"]_ivars

\* C33, its case: after a manual set_profile, a call after the cooldown has
\* selected the current profile and returned None, the timestamp being that of
\* the set_profile.
C33_Witness ==
    /\ iret = "None"
    /\ ihealth # NoHealth
    /\ last_adjustment > 0
    /\ last_change = NoTime
    /\ ~InAdjustCooldown(i_now, last_adjustment)
    /\ select_profile(ihealth) = current_profile

(***************************************************************************)
(*                 The claims about the performance monitor                *)
(***************************************************************************)

\* C34: when the time elapsed between two disk-I/O samples is zero or negative,
\* the pass of the sampler completes without error and reports the disk read
\* and write rates of the previous sample.
C34_ClockAnomalyGuard ==
    (pm_tick.outcome # "none" /\ pm_tick.elapsed <= 0) =>
        /\ pm_tick.outcome = "appended"
        /\ Len(pm_history) >= 2 =>
              pm_history[Len(pm_history)] = pm_history[Len(pm_history) - 1]

(***************************************************************************)
(*                   The claims about the throttle lock                    *)
(***************************************************************************)

\* C35: check_resources never blocks on its own lock: no call, also one that
\* activates the throttle (apply_throttle) or releases it (release_throttle)
\* while it holds throttle_lock, is left waiting for the lock it holds itself,
\* so that every call returns and the lock is free afterwards.
C35_NeverBlocksOnOwnLock ==
    \A t \in Threads :
        ~(/\ tpc[t] \in {"at_lock", "rt_lock"}
          /\ throttle_lock = t)

(***************************************************************************)
(*                The claims about the threads of the engine               *)
(***************************************************************************)

\* C36: thread-count reductions are never undone: over any sequence of throttle
\* callbacks, throttle activations, throttle releases and steps of a scan run,
\* max_threads never increases.
C36_ThreadsNeverIncrease == [][max_threads' <= max_threads]_vars

\* C36, its case: the throttle was activated with the cpu and memory rules and
\* has been released, the run has returned, and the engine is left with one
\* thread.
C36_Witness ==
    /\ ~is_throttled
    /\ throttle_start = NoTime
    /\ optimizer_batch_size < 1000
    /\ max_threads = 1
    /\ run["r1"].pc = "returned"

(***************************************************************************)
(*                   The claims about the manual override                  *)
(***************************************************************************)

\* C37: a manual override restarts the cooldown: every adjust_intensity call
\* made less than adjustment_cooldown after a successful set_profile(p), or
\* after the construction of the manager, returns None and leaves the profile
\* as it is (p, or balanced), also when the health status is critical.
C37_OverrideRestartsCooldown ==
    [][\A health \in HealthSamples \cup {NoHealth} :
          (adjust_intensity(health) /\ i_now - last_set < adjustment_cooldown)
             => /\ iret' = "None"
                /\ UNCHANGED current_profile]_ivars

\* C37, its case: the aggressive profile was set by hand after the first
\* cooldown, and a call with a critical reading inside the new window has
\* returned None and left it.
C37_Witness ==
    /\ iret = "None"
    /\ ihealth # NoHealth
    /\ ihealth.status = "critical"
    /\ current_profile = "aggressive"
    /\ last_set >= adjustment_cooldown
    /\ i_now > last_set
    /\ i_now - last_set < adjustment_cooldown

(***************************************************************************)
(*                    The claims about the scanning flag                   *)
(***************************************************************************)

\* C38: SystemMonitor.is_scanning is true exactly while at least one
\* scan_directory run is in progress on the engine: it is false when no run is
\* in progress, also after a run that ended by an exception, and it is never
\* false while a run is still executing batches.
C38_ScanningWhileRunning ==
    is_scanning <=> (\E r \in Runs : InProgress(r))

(***************************************************************************)
(*                     The claims about the monitor loops                  *)
(***************************************************************************)

\* C39: for SystemMonitor and SystemHealthMonitor, after any interleaving of
\* start_monitoring and stop_monitoring calls (two concurrent start_monitoring
\* calls, and a start_monitoring after a stop_monitoring whose join timed out,
\* included), at most one monitor loop thread is running.
C39_SingleMonitorLoop == Cardinality(AliveLoops) <= 1

(***************************************************************************)
(*                      The claims about create_batch                      *)
(***************************************************************************)

\* C40: size-aware batching loses no file: for every input list, the batches
\* create_batch returns, one after the other, are exactly the input list in
\* order, so that every input file, one whose size cannot be read included, is
\* in exactly one batch.
C40_NoFileLost ==
    cb_done => Concatenation(cb_batches) = [i \in 1..Len(cb_files) |-> i]

=============================================================================
